---- MODULE Spec2Model ----
(***************************************************************************)
(* papaya: the entity store (internal/store) and the chat manager          *)
(* (internal/chat) as state machines.                                      *)
(*                                                                         *)
(* Strings that the code compares or concatenates are TLA+ strings; a day  *)
(* string "2006-01-02" is the tuple <<year, month, day>> and the empty     *)
(* string of that field is << >>.                                          *)
(***************************************************************************)
EXTENDS Integers, Sequences, FiniteSets, TLC

\* ------------------------------------------------------------------ bounds

\* Goroutines calling the store concurrently.
NProcs == 2
\* CheckIn calls begun in one behaviour.
MaxCalls == 3
\* Calls of the user operations begun in one behaviour of their mix.
MaxStoreCalls == 2
\* Concurrent AddPoints(+1) callers.
NAdders == 3
\* The wall clock (hours since 1970-01-01T00:00Z) at Init: 1970-01-31 12:00Z.
WallStart == 732
\* Hours one Tick of the wall clock advances.
TickHours == 4
\* Ticks of the wall clock in one behaviour.
MaxTicks == 2
\* consumeRate calls in one behaviour.
MaxReqs == 4
\* The last reading of the monotonic clock.
MaxMono == 4
\* The largest limit SetRateLimit is given.
MaxLimit == 2
\* Chat calls in one behaviour.
MaxTurns == 2
\* Users of a listed store.
MaxUsers == 3
\* The largest limit and offset of a list call, besides the largest int.
MaxPage == 4

\* ------------------------------------------------------------------ program constants

\* time.FixedZone("CST-8", 8*3600), in hours.
ZoneOffsetHours == 8
\* checkInReward of the front-ends.
checkInReward == 10

Max(a, b) == IF a >= b THEN a ELSE b
Min(a, b) == IF a <= b THEN a ELSE b

Procs == 1..NProcs
Adders == 1..NAdders
AllProcs == 1..Max(NProcs, NAdders)
NoProc == 0
\* The goroutines calling Manager.Chat.
ChatProcs == {1, 2}

UserIDs == {"u1", "u2"}
NoDay == << >>

\* ------------------------------------------------------------------ time

\* Days of the months of 1970, the year the modelled clock stays in.
DaysInMonth == <<31, 28, 31, 30, 31, 30, 31, 31, 30, 31, 30, 31>>

RECURSIVE CivilFrom(_, _)
\* <<month, day>> of the 0-based day-of-year d, counting from month m.
CivilFrom(d, m) ==
    IF m >= 12 \/ d < DaysInMonth[m] THEN <<m, d + 1>>
    ELSE CivilFrom(d - DaysInMonth[m], m + 1)

\* now.Format("2006-01-02") for a local time t in hours since the epoch.
FormatDay(t) ==
    LET md == CivilFrom(t \div 24, 1) IN <<1970, md[1], md[2]>>

\* time.Now().In(s.zone) followed by Format: the UTC+8 calendar day.
Today(clock) == FormatDay(clock + ZoneOffsetHours)

\* ------------------------------------------------------------------ user records

\* The zero value of store.User.
ZeroUser ==
    [ID |-> "", Username |-> "", Points |-> 0, LastCheckin |-> NoDay,
     IsAdmin |-> FALSE, DisplayName |-> "", Persona |-> ""]

\* json.Marshal(user): the stored object; the ID is a JSON string.
Marshal(u) ==
    [id |-> [t |-> "string", v |-> u.ID], username |-> u.Username,
     points |-> u.Points, last_checkin |-> u.LastCheckin,
     is_admin |-> u.IsAdmin, display_name |-> u.DisplayName,
     persona |-> u.Persona]

\* fmt.Sprintf("%d", id) for the legacy numeric IDs the model stores.
Itoa(n) == IF n = 1 THEN "1" ELSE IF n = 2 THEN "2" ELSE "0"

\* User.UnmarshalJSON: the new format when the ID is a non-empty JSON string,
\* else the legacy format with a numeric ID.
Unmarshal(j) ==
    [ID |-> IF j.id.t = "string" THEN j.id.v ELSE Itoa(j.id.v),
     Username |-> j.username, Points |-> j.points,
     LastCheckin |-> j.last_checkin, IsAdmin |-> j.is_admin,
     DisplayName |-> j.display_name, Persona |-> j.persona]

VARIABLES
    users,      \* the users bucket: key -> stored JSON object
    users0,     \* the users bucket at Init
    storeMu,    \* Store.mu: the process holding it, or NoProc
    spc,        \* per process: its place in the store call
    scall,      \* per process: the call in progress (operation and arguments)
    suser,      \* per process: the local variable user
    sconc,      \* per process: another call was in progress during this one
    log,        \* the calls in the order their transaction bodies ran
    ncalls,     \* calls begun so far
    wallClock,  \* time.Now(), hours since the epoch (UTC)
    settings,   \* the settings bucket: key -> stored string
    rateLimit,  \* Manager.rateLimit
    rates,      \* Manager.rates: user -> rateWindow, for the users that have one
    monoClock,  \* time.Now(), the monotonic reading that now.Sub uses
    lastReq,    \* the last consumeRate call: its arguments, the state it met, its result
    wins,       \* per user: the requests made and admitted in the current window
    nreqs,      \* consumeRate calls so far
    mgr,        \* whether Manager.store is set; whether SetRateLimit was not yet
                \* called on this Manager; the limit of the last SetRateLimit if it
                \* succeeded; the limit last written to the store
    hasClient,  \* Manager.client is not nil
    model,      \* Manager.model
    cmodel,     \* per process: its last Manager.SetModel, the argument and how far it got
    mgrMu,      \* Manager.mu: the process holding it, or NoProc
    histories,  \* Manager.histories: user -> messages, for the cached users
    historyBucket, \* the history bucket: user -> stored blob
    saved,      \* per user: the data of the last SaveChatHistory that succeeded
    saves,      \* the goroutines "go m.store.SaveChatHistory(userID, data)" not yet run
    nsaves,     \* SaveChatHistory goroutines started so far
    cpc,        \* per process: its place in Manager.Chat
    cuser,      \* per process: the argument user
    cturn,      \* per process: the number of its turn (its prompt and answer carry it)
    chist,      \* per process: the local variable history
    creq,       \* per process: the completion request it sent
    cret,       \* per process: what its last Chat returned
    ccomp,      \* per process: what the steps of this turn met and left
    nturns,     \* Chat calls so far
    cctx,       \* per process: the caller's ctx: live, or where in Chat it was cancelled
    media,      \* the images bucket: key -> stored JSON object
    lcall,      \* the last list or media call: its arguments, what it met, its result
    pager       \* a client reading the user list page by page

storeVars == <<users, users0, storeMu, spc, scall, suser, sconc, log, ncalls>>
rateVars == <<settings, rateLimit, rates, monoClock, lastReq, wins, nreqs, mgr>>
chatVars == <<hasClient, model, cmodel, mgrMu, histories, historyBucket, saved, saves, nsaves,
              cpc, cuser, cturn, chist, creq, cret, ccomp, nturns, cctx>>
listVars == <<media, lcall, pager>>
nonStoreVars == <<rateVars, chatVars, listVars>>
vars == <<users, users0, storeMu, spc, scall, suser, sconc, log, ncalls, wallClock,
          settings, rateLimit, rates, monoClock, lastReq, wins, nreqs, mgr,
          hasClient, model, cmodel, mgrMu, histories, historyBucket, saved, saves, nsaves,
          cpc, cuser, cturn, chist, creq, cret, ccomp, nturns, cctx,
          media, lcall, pager>>


\* ------------------------------------------------------------------ store calls

\* A call of a user operation: op(id, n, s1, s2); unused arguments are 0 and "".
StoreCall(op, id, n, s1, s2) == [op |-> op, id |-> id, n |-> n, s1 |-> s1, s2 |-> s2]
NoCall == StoreCall("none", "", 0, "", "")

\* What a call returns: (gained, *User, error); user is ZeroUser where the code
\* returns nil or no user.
Ret(err, u, gained) == [err |-> err, user |-> u, gained |-> gained]
NoRet == Ret(FALSE, ZeroUser, 0)

\* The local variable user before bucket.Get.
NoLocal == [found |-> FALSE, u |-> ZeroUser]

\* bucket.Put(key, value)
Put(b, k, v) == [x \in (DOMAIN b) \cup {k} |-> IF x = k THEN v ELSE b[x]]

\* saveUser: the record is stored under its own ID.
saveUserByName(b, u) == Put(b, u.Username, Marshal(u))
saveUser(b, u) == Put(b, u.ID, Marshal(u))

\* s.mu.Lock() can return.
CanLockUnguarded(mu) == TRUE
CanLock(mu) == mu = NoProc

\* The body of GetOrCreateUser's transaction after bucket.Get.
GetOrCreateUserBodyOverwrite(found, u, c) ==
    IF found
    THEN [u EXCEPT !.Username = c.s1, !.DisplayName = c.s2]
    ELSE [ZeroUser EXCEPT !.ID = c.id, !.Username = c.s1, !.DisplayName = c.s2]
GetOrCreateUserBody(found, u, c) ==
    IF found
    THEN [u EXCEPT !.Username = IF c.s1 # "" THEN c.s1 ELSE @,
                   !.DisplayName = IF c.s2 # "" THEN c.s2 ELSE @]
    ELSE [ZeroUser EXCEPT !.ID = c.id, !.Username = c.s1, !.DisplayName = c.s2]

\* The day CheckIn compares the stored day with.
CheckInDayUTC(clock) == FormatDay(clock)
CheckInDay(clock) == Today(clock)

\* CheckIn finds the user already checked in today.
AlreadyCheckedInNever(u, day) == FALSE
AlreadyCheckedIn(u, day) == u.LastCheckin = day

\* The body of CheckIn's transaction after Unmarshal.
CheckInBody(u, c, clock) ==
    LET day == CheckInDay(clock) IN
    IF AlreadyCheckedIn(u, day)
    THEN [user |-> u, write |-> FALSE, gained |-> 0]
    ELSE [user |-> [u EXCEPT !.LastCheckin = day, !.Points = @ + c.n],
          write |-> TRUE, gained |-> c.n]

\* The body of each operation's transaction after the record was read:
\* the new value of user, whether saveUser runs, and gained.
TxBody(found, u, c, clock) ==
    CASE c.op = "GetOrCreateUser" ->
           [user |-> GetOrCreateUserBody(found, u, c), write |-> TRUE, gained |-> 0]
      [] c.op = "AddPoints" ->
           [user |-> [u EXCEPT !.Points = @ + c.n], write |-> TRUE, gained |-> 0]
      [] c.op = "SetPoints" ->
           [user |-> [u EXCEPT !.Points = c.n], write |-> TRUE, gained |-> 0]
      [] c.op = "PromoteAdmin" ->
           [user |-> [u EXCEPT !.IsAdmin = TRUE], write |-> TRUE, gained |-> 0]
      [] c.op = "CheckIn" -> CheckInBody(u, c, clock)
      [] c.op = "SetPersona" ->
           [user |-> [u EXCEPT !.Persona = c.s1], write |-> TRUE, gained |-> 0]

\* What the operation returns after a successful transaction.
TxReturn(c, b) ==
    IF c.op = "SetPersona" THEN NoRet ELSE Ret(FALSE, b.user, b.gained)

\* A goroutine enters a store operation.
Call(p, c) ==
    /\ spc[p] = "idle"
    /\ spc' = [spc EXCEPT ![p] = "wait"]
    /\ scall' = [scall EXCEPT ![p] = c]
    /\ sconc' = [q \in AllProcs |->
                   IF q = p THEN \E r \in AllProcs \ {p} : spc[r] # "idle"
                   ELSE sconc[q] \/ spc[q] # "idle"]
    /\ ncalls' = ncalls + 1
    /\ UNCHANGED <<users, users0, storeMu, suser, log, wallClock>>
    /\ UNCHANGED nonStoreVars

\* s.mu.Lock()
Lock(p) ==
    /\ spc[p] = "wait"
    /\ CanLock(storeMu)
    /\ storeMu' = p
    /\ spc' = [spc EXCEPT ![p] = "locked"]
    /\ UNCHANGED <<users, users0, scall, suser, sconc, log, ncalls, wallClock>>
    /\ UNCHANGED nonStoreVars

\* The operation goes on when bucket.Get found no record.
CreatesWhenMissingAlways(op) == TRUE
CreatesWhenMissing(op) == op = "GetOrCreateUser"

\* One call in the log: the clock its body read, the bucket before and after.
LogEntry(p, c, before, after, ret) ==
    [proc |-> p, call |-> c, at |-> wallClock, before |-> before, after |-> after,
     ret |-> ret, conc |-> sconc[p]]

\* bucket.Get(key) and json.Unmarshal; an unknown key ends every operation but
\* GetOrCreateUser with the not-found error.
TxGet(p) ==
    LET c == scall[p] IN
    /\ spc[p] = "locked"
    /\ \/ /\ c.id \in DOMAIN users
          /\ suser' = [suser EXCEPT ![p] = [found |-> TRUE, u |-> Unmarshal(users[c.id])]]
          /\ spc' = [spc EXCEPT ![p] = "got"]
          /\ UNCHANGED log
       \/ /\ c.id \notin DOMAIN users
          /\ CreatesWhenMissing(c.op)
          /\ suser' = [suser EXCEPT ![p] = [found |-> FALSE, u |-> ZeroUser]]
          /\ spc' = [spc EXCEPT ![p] = "got"]
          /\ UNCHANGED log
       \/ /\ c.id \notin DOMAIN users
          /\ ~CreatesWhenMissing(c.op)
          /\ log' = Append(log, LogEntry(p, c, users, users, Ret(TRUE, ZeroUser, 0)))
          /\ spc' = [spc EXCEPT ![p] = "unlock"]
          /\ UNCHANGED suser
    /\ UNCHANGED <<users, users0, storeMu, scall, sconc, ncalls, wallClock>>
    /\ UNCHANGED nonStoreVars

\* The rest of the transaction: the change of the record and saveUser.
TxPut(p) ==
    LET c == scall[p]
        b == TxBody(suser[p].found, suser[p].u, c, wallClock)
        after == IF b.write THEN saveUser(users, b.user) ELSE users
    IN
    /\ spc[p] = "got"
    /\ users' = after
    /\ suser' = [suser EXCEPT ![p].u = b.user]
    /\ log' = Append(log, LogEntry(p, c, users, after, TxReturn(c, b)))
    /\ spc' = [spc EXCEPT ![p] = "unlock"]
    /\ UNCHANGED <<users0, storeMu, scall, sconc, ncalls, wallClock>>
    /\ UNCHANGED nonStoreVars

\* The deferred s.mu.Unlock() and the return.
Unlock(p) ==
    /\ spc[p] = "unlock"
    /\ storeMu' = NoProc
    /\ spc' = [spc EXCEPT ![p] = "idle"]
    /\ scall' = [scall EXCEPT ![p] = NoCall]
    /\ suser' = [suser EXCEPT ![p] = NoLocal]
    /\ sconc' = [sconc EXCEPT ![p] = FALSE]
    /\ UNCHANGED <<users, users0, log, ncalls, wallClock>>
    /\ UNCHANGED nonStoreVars

\* The wall clock advances.
Tick ==
    /\ wallClock + TickHours <= WallStart + MaxTicks * TickHours
    /\ wallClock' = wallClock + TickHours
    /\ UNCHANGED storeVars
    /\ UNCHANGED nonStoreVars

\* ------------------------------------------------------------------ settings

rateLimitKey == "chat_rate_limit"

DigitChars == <<"0", "1", "2", "3", "4", "5", "6", "7", "8", "9">>

RECURSIVE FormatNat(_)
\* The decimal digits of n >= 0.
FormatNat(n) ==
    IF n < 10 THEN <<DigitChars[n + 1]>>
    ELSE Append(FormatNat(n \div 10), DigitChars[(n % 10) + 1])

\* fmt.Sprintf("%d", n): the string as the sequence of its characters.
FormatInt(n) == IF n < 0 THEN <<"-">> \o FormatNat(-n) ELSE FormatNat(n)

DigitValue(ch) == CHOOSE d \in 0..9 : DigitChars[d + 1] = ch

RECURSIVE ParseNat(_)
ParseNat(str) ==
    IF Len(str) = 0 THEN 0
    ELSE 10 * ParseNat(SubSeq(str, 1, Len(str) - 1)) + DigitValue(str[Len(str)])

\* fmt.Sscanf(value, "%d", &limit) on a string Sprintf wrote.
ParseInt(str) ==
    IF Len(str) > 0 /\ str[1] = "-" THEN -ParseNat(Tail(str)) ELSE ParseNat(str)

\* Store.SetRateLimit: the settings bucket after the Put.
StoreSetRateLimit(b, limit) == Put(b, rateLimitKey, FormatInt(limit))

\* Store.GetRateLimit: (limit, ok).
StoreGetRateLimit(b) ==
    IF rateLimitKey \in DOMAIN b
    THEN [limit |-> ParseInt(b[rateLimitKey]), ok |-> TRUE]
    ELSE [limit |-> 0, ok |-> FALSE]

\* ------------------------------------------------------------------ rate limiter

defaultRateLimitPerMin == 20
\* time.Minute in ticks of the monotonic clock.
Minute == 2

\* Manager.rateLimit is a float64 that only ever holds float64(n) of an int n;
\* float64(n), the comparisons with it and int(float64(n)) are exact for
\* |n| < 2^53, so the model keeps the integer.

\* NewManager: the limit a new Manager starts with.
NewManagerRateLimit(b) ==
    LET got == StoreGetRateLimit(b)
    IN IF got.ok THEN got.limit ELSE defaultRateLimitPerMin

\* The limit value that switches enforcement off.
RateDisabledNegativeOnly(limit) == limit < 0
RateDisabled(limit) == limit <= 0

\* The window of the user is missing or too old: a new one is opened.
WindowExpiredAtMinute(rs, u, now) == u \notin DOMAIN rs \/ now - rs[u].start >= Minute
WindowExpired(rs, u, now) == u \notin DOMAIN rs \/ now - rs[u].start > Minute

\* The window's count has reached the limit.
WindowFullAbove(count, limit) == count > limit
WindowFull(count, limit) == count >= limit

\* Manager.consumeRate(userID) at time now: whether the request is admitted
\* (err = FALSE), the limit the error carries, and m.rates afterwards.
consumeRate(limit, rs, u, now) ==
    IF RateDisabled(limit) THEN [err |-> FALSE, max |-> 0, rates |-> rs]
    ELSE IF WindowExpired(rs, u, now)
    THEN [err |-> FALSE, max |-> 0, rates |-> Put(rs, u, [start |-> now, count |-> 1])]
    ELSE IF WindowFull(rs[u].count, limit)
    THEN [err |-> TRUE, max |-> limit, rates |-> rs]
    ELSE [err |-> FALSE, max |-> 0,
          rates |-> Put(rs, u, [start |-> rs[u].start, count |-> rs[u].count + 1])]

\* The record of a consumeRate call.
ReqRecord(u, now, limit, before, r) ==
    [user |-> u, at |-> now, limit |-> limit, before |-> before,
     err |-> r.err, max |-> r.max]
NoReq == [user |-> "", at |-> 0, limit |-> 0, before |-> << >>, err |-> FALSE, max |-> 0]

\* The requests of a user's current window: made, admitted, and whether the
\* limit stayed the same since the window opened; and the times of the user's
\* admitted requests, of all windows, since the limit last changed.
NoWin == [reqs |-> 0, adm |-> 0, const |-> FALSE, admits |-> << >>]
WinAfter(w, rs, u, now, r) ==
    IF r.rates = rs /\ ~r.err THEN w
    ELSE IF r.rates # rs /\ r.rates[u].start = now /\ r.rates[u].count = 1
              /\ (u \notin DOMAIN rs \/ rs[u].start # now)
    THEN [w EXCEPT !.reqs = 1, !.adm = 1, !.const = TRUE]
    ELSE [w EXCEPT !.reqs = @ + 1, !.adm = IF r.err THEN @ ELSE @ + 1]

\* What a consumeRate call with result r leaves in the limiter.
ConsumeRateEffect(u, r) ==
    /\ rates' = r.rates
    /\ lastReq' = ReqRecord(u, monoClock, rateLimit, rates, r)
    /\ wins' = [wins EXCEPT ![u] =
                  [WinAfter(@, rates, u, monoClock, r) EXCEPT
                      !.admits = IF r.err THEN @ ELSE Append(@, monoClock)]]
    /\ nreqs' = nreqs + 1
    /\ UNCHANGED <<settings, mgr, rateLimit, monoClock>>

\* A request of user u reaches consumeRate (m.mu held by the caller).
ConsumeRateCall(u) ==
    /\ nreqs < MaxReqs
    /\ mgrMu = NoProc
    /\ ConsumeRateEffect(u, consumeRate(rateLimit, rates, u, monoClock))
    /\ UNCHANGED <<storeVars, listVars, wallClock, chatVars>>

\* A limit that was set, and none.
SetTo(limit) == [set |-> TRUE, v |-> limit]
NotSet == [set |-> FALSE, v |-> 0]

\* The Manager with its store, after a SetRateLimit(limit) that succeeded.
AfterSetRateLimit(m, limit) ==
    [m EXCEPT !.new = FALSE, !.last = SetTo(limit),
              !.stored = IF m.store THEN SetTo(limit) ELSE @]

\* Manager.SetRateLimit(limit): the limit in memory and, if the Manager has
\* a store, in the store.
SetRateLimit(limit) ==
    /\ mgrMu = NoProc
    /\ storeMu = NoProc
    /\ rateLimit' = limit
    /\ settings' = IF mgr.store THEN StoreSetRateLimit(settings, limit) ELSE settings
    /\ mgr' = AfterSetRateLimit(mgr, limit)
    /\ wins' = [u \in UserIDs |->
                  IF limit # rateLimit
                  THEN [wins[u] EXCEPT !.const = FALSE, !.admits = << >>]
                  ELSE wins[u]]
    /\ UNCHANGED <<rates, monoClock, lastReq, nreqs>>
    /\ UNCHANGED <<storeVars, listVars, wallClock, chatVars>>

\* The monotonic clock advances.
MonoTick ==
    /\ monoClock < MaxMono
    /\ monoClock' = monoClock + 1
    /\ UNCHANGED <<settings, mgr, rateLimit, rates, lastReq, wins, nreqs>>
    /\ UNCHANGED <<storeVars, listVars, wallClock, chatVars>>

\* A Manager newly created over a store whose settings bucket is b.
InitManagerWith(b) ==
    /\ settings = b
    /\ mgr = [store |-> TRUE, new |-> TRUE, last |-> NotSet,
              stored |-> IF StoreGetRateLimit(b).ok THEN SetTo(StoreGetRateLimit(b).limit)
                         ELSE NotSet]
    /\ rateLimit = NewManagerRateLimit(b)
    /\ rates = << >>
    /\ monoClock = 0
    /\ lastReq = NoReq
    /\ wins = [u \in UserIDs |-> NoWin]
    /\ nreqs = 0

\* ------------------------------------------------------------------ rate limiter of internal/chat/chat.go

\* internal/chat/chat.go holds an earlier Manager: users are int64 keys, the
\* limit is an int, and these two methods differ from the ones above.

\* The users of the earlier Manager.
LegacyUserIDs == {1, 2}

\* consumeRate of the earlier Manager: a window a full minute old is replaced,
\* the new window starts at count 0 and is then judged like an open one.
LegacyConsumeRate(limit, rs, u, now) ==
    LET window == IF u \notin DOMAIN rs \/ now - rs[u].start >= Minute
                  THEN [start |-> now, count |-> 0]
                  ELSE rs[u]
    IN IF limit <= 0 THEN [err |-> FALSE, max |-> 0, rates |-> rs]
       ELSE IF window.count >= limit THEN [err |-> TRUE, max |-> limit, rates |-> rs]
       ELSE [err |-> FALSE, max |-> 0,
             rates |-> Put(rs, u, [start |-> window.start, count |-> window.count + 1])]

\* A request of user u reaches consumeRate of the earlier Manager.
LegacyConsumeRateCall(u) ==
    /\ nreqs < MaxReqs
    /\ mgrMu = NoProc
    /\ rates' = LegacyConsumeRate(rateLimit, rates, u, monoClock).rates
    /\ nreqs' = nreqs + 1
    /\ UNCHANGED <<settings, mgr, rateLimit, monoClock, lastReq, wins>>
    /\ UNCHANGED <<storeVars, listVars, wallClock, chatVars>>

\* SetRateLimit of the earlier Manager, called by one admin at a time: the
\* limit, a new empty m.rates, then the store.
LegacySetRateLimit(limit) ==
    /\ mgrMu = NoProc
    /\ storeMu = NoProc
    /\ rateLimit' = limit
    /\ rates' = << >>
    /\ settings' = StoreSetRateLimit(settings, limit)
    /\ mgr' = AfterSetRateLimit(mgr, limit)
    /\ UNCHANGED <<monoClock, lastReq, wins, nreqs>>
    /\ UNCHANGED <<storeVars, listVars, wallClock, chatVars>>

\* ------------------------------------------------------------------ chat manager

maxHistory == 20
summaryThreshold == 15
keepRecent == 5

modelKey == "openai_model"

\* An openai.ChatCompletionMessage: its role and its content, the content a
\* string given as the sequence of its pieces.
Msg(role, content) == [Role |-> role, Content |-> content]

\* The baseline instructions sent with every request.
defaultSystemMessages == <<Msg("system", <<"sys1">>), Msg("system", <<"sys2">>)>>

\* The system messages of a request: the persona first, if the user has one.
SystemMessagesPersonaLast(user) ==
    defaultSystemMessages
        \o (IF user.Persona # "" THEN <<Msg("system", <<user.Persona>>)>> ELSE << >>)
SystemMessages(user) ==
    (IF user.Persona # "" THEN <<Msg("system", <<user.Persona>>)>> ELSE << >>)
        \o defaultSystemMessages

\* json.Marshal(history): the blob SaveChatHistory is given.
MarshalHistory(h) ==
    [kind |-> "json",
     msgs |-> [i \in 1..Len(h) |-> [role |-> h[i].Role, content |-> h[i].Content]]]

\* A stored blob that is no JSON.
Garbage == [kind |-> "garbage", msgs |-> << >>]

\* A stored blob that is a JSON array whose elements are the messages of h
\* followed by an element that is no message (a number).
BadElement(h) == [kind |-> "badelement", msgs |-> MarshalHistory(h).msgs]

\* The zero openai.ChatCompletionMessage.
ZeroMsg == Msg("", << >>)

\* json.Unmarshal(data, &history): the error, and what history holds
\* afterwards. A syntax error is found before anything is stored; an element
\* of the wrong type is an error too, but the elements before it are decoded
\* into the slice, which has grown to hold the failing element as well.
UnmarshalHistoryAllOrNothing(data) ==
    IF data.kind = "json"
    THEN [err |-> FALSE,
          history |-> [i \in 1..Len(data.msgs) |-> Msg(data.msgs[i].role, data.msgs[i].content)]]
    ELSE [err |-> TRUE, history |-> << >>]
UnmarshalHistory(data) ==
    LET decoded == [i \in 1..Len(data.msgs) |-> Msg(data.msgs[i].role, data.msgs[i].content)]
    IN IF data.kind = "json" THEN [err |-> FALSE, history |-> decoded]
       ELSE IF data.kind = "badelement" THEN [err |-> TRUE, history |-> Append(decoded, ZeroMsg)]
       ELSE [err |-> TRUE, history |-> << >>]

\* The history Chat starts from and the cache after the load: the cached
\* one, else what json.Unmarshal left in the local variable history, which
\* is cached if the decoding returned no error.
LoadHistory(cache, bucket, u) ==
    IF u \in DOMAIN cache THEN [history |-> cache[u], cache |-> cache]
    ELSE IF u \notin DOMAIN bucket THEN [history |-> << >>, cache |-> cache]
    ELSE IF ~UnmarshalHistory(bucket[u]).err
    THEN [history |-> UnmarshalHistory(bucket[u]).history,
          cache |-> Put(cache, u, UnmarshalHistory(bucket[u]).history)]
    ELSE [history |-> UnmarshalHistory(bucket[u]).history, cache |-> cache]

\* The history is long enough for the auto-summarization to run.
NeedsSummaryAtThreshold(h) == Len(h) >= summaryThreshold /\ Len(h) - keepRecent > 0
NeedsSummaryOverCeiling(h) == Len(h) > maxHistory /\ Len(h) - keepRecent > 0
NeedsSummary(h) == Len(h) > summaryThreshold /\ Len(h) - keepRecent > 0

\* recent := history[cutIdx:] with cutIdx = len(history) - keepRecent.
RecentFromKeepRecent(h) == SubSeq(h, keepRecent + 1, Len(h))
Recent(h) == SubSeq(h, Len(h) - keepRecent + 1, Len(h))

\* The answer of the completion service to a request: a transport error
\* (err # ""), or the contents of the choices it returned.
ApiOk(content) == [err |-> "", choices |-> <<content>>]
ApiEmpty == [err |-> "", choices |-> << >>]
ApiError(e) == [err |-> e, choices |-> << >>]

\* The errors of a call whose context was cancelled or ran out of time.
Canceled == "context canceled"
DeadlineExceeded == "context deadline exceeded"

\* The context of the summarization sub-call, made in summarizeHistory from
\* the ctx Chat was given: what cancels it, and whether it has a deadline.
SumCtxOfCaller(ctx) == [parent |-> "caller", deadline |-> FALSE]
SumCtxNoDeadline(ctx) == [parent |-> "background", deadline |-> FALSE]
SumCtx(ctx) == [parent |-> "background", deadline |-> TRUE]

\* older := history[:cutIdx]
Older(h) == SubSeq(h, 1, Len(h) - keepRecent)

\* The label summarizeHistory gives a message in the text it sends: the role,
\* a system message being "Context".
SummaryLabelRole(role) == role
SummaryLabel(role) == IF role = "system" THEN "Context" ELSE role

\* The conversation summarizeHistory sends: one line "label: content" for
\* each message.
SummaryConversation(msgs) ==
    [i \in 1..Len(msgs) |-> [label |-> SummaryLabel(msgs[i].Role), content |-> msgs[i].Content]]

\* Manager.summarizeHistory: (summary, err) for the service's answer.
summarizeHistory(resp) ==
    IF resp.err # "" THEN [summary |-> << >>, err |-> resp.err]
    ELSE IF Len(resp.choices) = 0 THEN [summary |-> << >>, err |-> "empty summary response"]
    ELSE [summary |-> resp.choices[1], err |-> ""]

\* fmt.Sprintf("Prior conversation summary: %s", summary) as a system message.
SummaryMsg(summary) == Msg("system", <<"Prior conversation summary: ">> \o summary)

\* The auto-summarization after summarizeHistory returned r: the new history
\* and whether the cache is replaced and the history persisted.
CompactSummaryLast(h, r) ==
    IF r.err = ""
    THEN [history |-> Recent(h) \o <<SummaryMsg(r.summary)>>, replaced |-> TRUE]
    ELSE [history |-> h, replaced |-> FALSE]
CompactIgnoringError(h, r) ==
    [history |-> <<SummaryMsg(r.summary)>> \o Recent(h), replaced |-> TRUE]
Compact(h, r) ==
    IF r.err = ""
    THEN [history |-> <<SummaryMsg(r.summary)>> \o Recent(h), replaced |-> TRUE]
    ELSE [history |-> h, replaced |-> FALSE]

\* Store.SetModel: the settings bucket afterwards.
StoreSetModel(b, mdl) == Put(b, modelKey, mdl)

\* Store.GetModel: the stored model, or the empty string when it is not set.
StoreGetModel(b) == IF modelKey \in DOMAIN b THEN b[modelKey] ELSE ""

\* A Manager.SetModel call: its argument and its state (running between the
\* two locks, done, or failed with the store's error).
ModelCall(mdl, state) == [model |-> mdl, state |-> state]
NoModelCall == ModelCall("", "none")

\* Manager.SetModel, first part: m.mu.Lock(); m.model = model; m.mu.Unlock().
SetModelBegin(p, mdl) ==
    /\ cpc[p] = "idle"
    /\ mgrMu = NoProc
    /\ model' = mdl
    /\ cmodel' = [cmodel EXCEPT ![p] = ModelCall(mdl, "running")]
    /\ cpc' = [cpc EXCEPT ![p] = "persisting"]
    /\ UNCHANGED <<hasClient, mgrMu, histories, historyBucket, saved, saves, nsaves,
                   cuser, cturn, chist, creq, cret, ccomp, nturns, cctx>>
    /\ UNCHANGED <<storeVars, listVars, wallClock, rateVars>>

\* Manager.SetModel, second part: return m.store.SetModel(model), the
\* transaction committing.
SetModelPersist(p) ==
    /\ cpc[p] = "persisting"
    /\ storeMu = NoProc
    /\ settings' = StoreSetModel(settings, cmodel[p].model)
    /\ cmodel' = [cmodel EXCEPT ![p].state = "done"]
    /\ cpc' = [cpc EXCEPT ![p] = "idle"]
    /\ UNCHANGED <<rateLimit, rates, monoClock, lastReq, wins, nreqs, mgr>>
    /\ UNCHANGED <<hasClient, model, mgrMu, histories, historyBucket, saved, saves, nsaves,
                   cuser, cturn, chist, creq, cret, ccomp, nturns, cctx>>
    /\ UNCHANGED <<storeVars, listVars, wallClock>>

\* Manager.SetModel, second part, the transaction failing: the store keeps
\* what it had and the call returns the error.
SetModelFails(p) ==
    /\ cpc[p] = "persisting"
    /\ storeMu = NoProc
    /\ cmodel' = [cmodel EXCEPT ![p].state = "failed"]
    /\ cpc' = [cpc EXCEPT ![p] = "idle"]
    /\ UNCHANGED <<hasClient, model, mgrMu, histories, historyBucket, saved, saves, nsaves,
                   cuser, cturn, chist, creq, cret, ccomp, nturns, cctx>>
    /\ UNCHANGED <<storeVars, listVars, wallClock, rateVars>>

\* The request of the turn: the model and the messages.
ChatRequest(user, h, prompt, mdl, bucket) ==
    [model |-> IF modelKey \in DOMAIN bucket /\ bucket[modelKey] # "" THEN bucket[modelKey] ELSE mdl,
     messages |-> SystemMessages(user) \o h \o <<Msg("user", prompt)>>]
NoRequest == [model |-> "", messages |-> << >>]

\* What a turn appends to the history: the prompt, then the answer.
TurnPairAnswerFirst(prompt, answer) == <<Msg("assistant", answer), Msg("user", prompt)>>
TurnPair(prompt, answer) == <<Msg("user", prompt), Msg("assistant", answer)>>

\* currentHistory cut to its last maxHistory messages.
TruncateNever(h) == h
Truncate(h) ==
    IF Len(h) > maxHistory THEN SubSeq(h, Len(h) - maxHistory + 1, Len(h)) ELSE h

\* The prompt and the answer of turn n.
Prompt(n) == <<"q">> \o FormatNat(n)
Answer(n) == <<"a">> \o FormatNat(n)

\* What Chat returns.
ChatRet(answer, err) == [answer |-> answer, err |-> err]
NoChatRet == ChatRet(<< >>, "")

\* What the steps of a turn met and left. Of its summarization: the
\* conversation sent to the summarizer (sumreq), the history, the cache and
\* the pending saves before and after it, and its error. Of its append: the
\* history with the turn's pair (full) and what was kept of it.
NoComp == [state |-> "none", pre |-> << >>, post |-> << >>,
           cacheBefore |-> << >>, cacheAfter |-> << >>,
           savesBefore |-> {}, savesAfter |-> {}, err |-> "",
           full |-> << >>, kept |-> << >>, sumreq |-> << >>]

\* A pending "go m.store.SaveChatHistory(userID, data)".
SaveJob(n, u, h) == [seq |-> n, user |-> u, data |-> MarshalHistory(h)]

\* if err := m.consumeRate(userID); err != nil: the turn ends there.
RateRejectedNever(r) == FALSE
RateRejected(r) == r.err

\* The part of Chat between its first m.mu.Lock() and the summarization:
\* the client check, the rate limiter, the load of the history.
ChatBegin(p, user) ==
    LET u == user.ID
        r == consumeRate(rateLimit, rates, u, monoClock)
        ld == LoadHistory(histories, historyBucket, u)
        n == nturns + 1
    IN
    /\ cpc[p] = "idle"
    /\ nturns < MaxTurns
    /\ mgrMu = NoProc
    /\ storeMu = NoProc
    /\ nturns' = n
    /\ cuser' = [cuser EXCEPT ![p] = user]
    /\ cturn' = [cturn EXCEPT ![p] = n]
    /\ ccomp' = [ccomp EXCEPT ![p] =
                   IF hasClient /\ ~RateRejected(r) /\ NeedsSummary(ld.history)
                   THEN [NoComp EXCEPT !.sumreq = SummaryConversation(Older(ld.history))]
                   ELSE NoComp]
    /\ cctx' = [cctx EXCEPT ![p] = "live"]
    /\ IF ~hasClient
       THEN /\ cret' = [cret EXCEPT ![p] = ChatRet(<< >>, "OpenAI client is not configured")]
            /\ UNCHANGED <<rateVars, mgrMu, histories, cpc, chist, creq>>
       ELSE /\ ConsumeRateEffect(u, r)
            /\ IF RateRejected(r)
               THEN /\ cret' = [cret EXCEPT ![p] = ChatRet(<< >>, "rate limit exceeded")]
                    /\ UNCHANGED <<mgrMu, histories, cpc, chist, creq>>
               ELSE /\ histories' = ld.cache
                    /\ chist' = [chist EXCEPT ![p] = ld.history]
                    /\ cret' = [cret EXCEPT ![p] = NoChatRet]
                    /\ IF NeedsSummary(ld.history)
                       THEN /\ cpc' = [cpc EXCEPT ![p] = "summarizing"]
                            /\ mgrMu' = p
                            /\ creq' = [creq EXCEPT ![p] = NoRequest]
                       ELSE /\ cpc' = [cpc EXCEPT ![p] = "completing"]
                            /\ mgrMu' = NoProc
                            /\ creq' = [creq EXCEPT ![p] =
                                  ChatRequest(user, ld.history, Prompt(n), model, settings)]
    /\ UNCHANGED <<hasClient, model, cmodel, historyBucket, saved, saves, nsaves>>
    /\ UNCHANGED <<storeVars, listVars, wallClock>>

\* The summarization call returns (an answer, an error, no choice, or the
\* 30 s timeout of its own context): the compaction, the request, m.mu.Unlock().
SummaryReturn(p, resp) ==
    LET u == cuser[p].ID
        r == summarizeHistory(resp)
        c == Compact(chist[p], r)
        cache == IF c.replaced THEN Put(histories, u, c.history) ELSE histories
        jobs == IF c.replaced THEN saves \cup {SaveJob(nsaves + 1, u, c.history)} ELSE saves
    IN
    /\ cpc[p] = "summarizing"
    /\ storeMu = NoProc
    /\ chist' = [chist EXCEPT ![p] = c.history]
    /\ histories' = cache
    /\ saves' = jobs
    /\ nsaves' = IF c.replaced THEN nsaves + 1 ELSE nsaves
    /\ ccomp' = [ccomp EXCEPT ![p] =
                   [state |-> IF r.err = "" THEN "done" ELSE "failed",
                    pre |-> chist[p], post |-> c.history,
                    cacheBefore |-> histories, cacheAfter |-> cache,
                    savesBefore |-> saves, savesAfter |-> jobs, err |-> r.err,
                    full |-> << >>, kept |-> << >>, sumreq |-> ccomp[p].sumreq]]
    /\ creq' = [creq EXCEPT ![p] =
                  ChatRequest(cuser[p], c.history, Prompt(cturn[p]), model, settings)]
    /\ cpc' = [cpc EXCEPT ![p] = "completing"]
    /\ mgrMu' = NoProc
    /\ UNCHANGED <<cctx, hasClient, model, cmodel, historyBucket, saved, cuser, cturn, cret, nturns>>
    /\ UNCHANGED <<storeVars, listVars, wallClock, rateVars>>

\* The completion call returns: an error or no choice ends the turn, an
\* answer is kept for the append.
CompletionReturn(p, resp) ==
    /\ cpc[p] = "completing"
    /\ cctx[p] # "live" => resp = ApiError(Canceled)
    /\ IF resp.err # ""
       THEN /\ cret' = [cret EXCEPT ![p] = ChatRet(<< >>, resp.err)]
            /\ cpc' = [cpc EXCEPT ![p] = "idle"]
       ELSE IF Len(resp.choices) = 0
       THEN /\ cret' = [cret EXCEPT ![p] = ChatRet(<< >>, "empty response")]
            /\ cpc' = [cpc EXCEPT ![p] = "idle"]
       ELSE /\ cret' = [cret EXCEPT ![p] = ChatRet(resp.choices[1], "")]
            /\ cpc' = [cpc EXCEPT ![p] = "append"]
    /\ UNCHANGED <<cctx, hasClient, model, cmodel, mgrMu, histories, historyBucket, saved, saves, nsaves,
                   cuser, cturn, chist, creq, ccomp, nturns>>
    /\ UNCHANGED <<storeVars, listVars, wallClock, rateVars>>

\* The second critical section of Chat: the append of the turn's pair to the
\* cached history, the cut to maxHistory, the hand-over to SaveChatHistory.
ChatAppend(p) ==
    LET u == cuser[p].ID
        cached == IF u \in DOMAIN histories THEN histories[u] ELSE << >>
        appended == cached \o TurnPair(Prompt(cturn[p]), cret[p].answer)
        currentHistory == Truncate(appended)
    IN
    /\ cpc[p] = "append"
    /\ mgrMu = NoProc
    /\ histories' = Put(histories, u, currentHistory)
    /\ saves' = saves \cup {SaveJob(nsaves + 1, u, currentHistory)}
    /\ nsaves' = nsaves + 1
    /\ cpc' = [cpc EXCEPT ![p] = "idle"]
    /\ ccomp' = [ccomp EXCEPT ![p].full = appended, ![p].kept = currentHistory]
    /\ UNCHANGED <<cctx, hasClient, model, cmodel, mgrMu, historyBucket, saved, cuser, cturn, chist, creq,
                   cret, nturns>>
    /\ UNCHANGED <<storeVars, listVars, wallClock, rateVars>>

\* The deadline of the summarization sub-call's context passes while the
\* call is in flight: CreateChatCompletion returns the context's error.
SummaryTimeout(p) ==
    /\ SumCtx(cctx[p]).deadline
    /\ SummaryReturn(p, ApiError(DeadlineExceeded))

\* The caller's ctx is cancelled (or its own deadline passes) while a call of
\* the turn is in flight. A call made with a context the caller's ctx cancels
\* can from then on only return the context's error.
Cancel(p) ==
    /\ cpc[p] \in {"summarizing", "completing"}
    /\ cctx[p] = "live"
    /\ cctx' = [cctx EXCEPT ![p] = cpc[p]]
    /\ UNCHANGED <<hasClient, model, cmodel, mgrMu, histories, historyBucket, saved, saves, nsaves,
                   cpc, cuser, cturn, chist, creq, cret, ccomp, nturns>>
    /\ UNCHANGED <<storeVars, listVars, wallClock, rateVars>>

\* The summarization sub-call returns resp, which its context allows: once
\* the caller's ctx is cancelled, a sub-call under it returns only that error.
SummaryAnswer(p, resp) ==
    /\ (SumCtx(cctx[p]).parent = "caller" /\ cctx[p] # "live") => resp = ApiError(Canceled)
    /\ SummaryReturn(p, resp)

\* One of the SaveChatHistory goroutines runs: Store.SaveChatHistory.
SaveChatHistory(job) ==
    /\ job \in saves
    /\ storeMu = NoProc
    /\ historyBucket' = Put(historyBucket, job.user, job.data)
    /\ saved' = Put(saved, job.user, job.data)
    /\ saves' = saves \ {job}
    /\ UNCHANGED <<cctx, hasClient, model, cmodel, mgrMu, histories, nsaves, cpc, cuser, cturn, chist,
                   creq, cret, ccomp, nturns>>
    /\ UNCHANGED <<storeVars, listVars, wallClock, rateVars>>

\* A new Manager, with a client if it got an API key, over a store whose
\* history bucket is hb.
InitChatWith(client, hb) ==
    /\ hasClient = client
    /\ model = "gpt"
    /\ cmodel = [p \in ChatProcs |-> NoModelCall]
    /\ mgrMu = NoProc
    /\ histories = << >>
    /\ historyBucket = hb
    /\ saved = hb
    /\ saves = {}
    /\ nsaves = 0
    /\ cpc = [p \in ChatProcs |-> "idle"]
    /\ cuser = [p \in ChatProcs |-> [ID |-> "", Persona |-> ""]]
    /\ cturn = [p \in ChatProcs |-> 0]
    /\ chist = [p \in ChatProcs |-> << >>]
    /\ creq = [p \in ChatProcs |-> NoRequest]
    /\ cret = [p \in ChatProcs |-> NoChatRet]
    /\ ccomp = [p \in ChatProcs |-> NoComp]
    /\ nturns = 0
    /\ cctx = [p \in ChatProcs |-> "live"]

\* ------------------------------------------------------------------ lists and media

\* The largest int of a 32-bit build; a 64-bit build differs in the value only.
MaxInt == 2147483647

\* a + b in Go's int, for a and b from 0 to MaxInt: the sum wraps around.
AddInt(a, b) ==
    IF b > MaxInt - a THEN ((a - MaxInt - 1) + b) - MaxInt - 1 ELSE a + b

\* The user IDs of a listed store, in the order of Go's string comparison.
IDOrder == <<"1", "10", "2", "u1", "u2", "u3">>
ListIDs == {IDOrder[i] : i \in 1..MaxUsers}

\* users[i].ID < users[j].ID
StringLess(a, b) ==
    (CHOOSE i \in 1..Len(IDOrder) : IDOrder[i] = a)
        < (CHOOSE i \in 1..Len(IDOrder) : IDOrder[i] = b)

RECURSIVE SortUsers(_)
\* sort.Slice by ID over the records S that ForEach decoded.
SortUsers(S) ==
    IF S = {} THEN << >>
    ELSE LET m == CHOOSE x \in S : \A y \in S \ {x} : StringLess(x.ID, y.ID)
         IN <<m>> \o SortUsers(S \ {m})

\* ListUsers up to the sort: every record of the bucket, ascending by ID.
AllUsers(b) == SortUsers({Unmarshal(b[k]) : k \in DOMAIN b})

\* The zero value of store.Media, with the fields SaveMedia leaves out as
\* the front-end fills them.
ZeroMedia ==
    [ID |-> "", FileID |-> "", Type |-> "photo", Caption |-> "", AddedBy |-> "u1",
     CreatedAt |-> 0, R2Key |-> "", Tags |-> << >>]

\* json.Marshal(m): r2_key and tags are left out when empty (omitempty).
MarshalMedia(m) ==
    LET keys == {"id", "file_id", "type", "caption", "added_by", "created_at"}
                  \cup (IF m.R2Key # "" THEN {"r2_key"} ELSE {})
                  \cup (IF m.Tags # << >> THEN {"tags"} ELSE {})
    IN [k \in keys |->
          CASE k = "id" -> m.ID
            [] k = "file_id" -> m.FileID
            [] k = "type" -> m.Type
            [] k = "caption" -> m.Caption
            [] k = "added_by" -> m.AddedBy
            [] k = "created_at" -> m.CreatedAt
            [] k = "r2_key" -> m.R2Key
            [] k = "tags" -> m.Tags]

\* json.Unmarshal(data, &m) into a zero Media.
UnmarshalMedia(j) ==
    [ID |-> j["id"], FileID |-> j["file_id"], Type |-> j["type"],
     Caption |-> j["caption"], AddedBy |-> j["added_by"],
     CreatedAt |-> j["created_at"],
     R2Key |-> IF "r2_key" \in DOMAIN j THEN j["r2_key"] ELSE "",
     Tags |-> IF "tags" \in DOMAIN j THEN j["tags"] ELSE << >>]

\* time.Now().Unix()
Unix(clock) == clock * 3600

\* bucket.Delete(key): nothing happens when the key does not exist.
Delete(b, k) == [x \in (DOMAIN b) \ {k} |-> b[x]]

RECURSIVE Perms(_)
\* The orders in which the elements of S can stand.
Perms(S) ==
    IF S = {} THEN {<< >>}
    ELSE UNION {{<<x>> \o q : q \in Perms(S \ {x})} : x \in S}

\* ListMedia up to the sort: sort.Slice is not stable, so records of the same
\* second come out in any order.
AllMedia(b) ==
    {[i \in 1..Len(ks) |-> UnmarshalMedia(b[ks[i]])] : ks \in
        {q \in Perms(DOMAIN b) :
            \A i, j \in 1..Len(q) :
                i < j => ~(b[q[j]]["created_at"] > b[q[i]]["created_at"])}}

\* What a list or media call returns: the error text ("" for nil) and the
\* items; panicked when the call did not return.
ListRet(err, items) == [panicked |-> FALSE, err |-> err, items |-> items]
Panicked == [panicked |-> TRUE, err |-> "", items |-> << >>]

\* The slice expression list[offset:end] panics unless 0 <= offset <= end <= len.
SliceInRange(list, offset, end) == 0 <= offset /\ offset <= end /\ end <= Len(list)

\* The end of the page as the code computes it.
PageEndBeforeLast(list, limit, offset) ==
    LET end == AddInt(offset, limit) IN
    IF end >= Len(list) THEN Len(list) - 1 ELSE end
PageEnd(list, limit, offset) ==
    LET end == AddInt(offset, limit) IN
    IF end > Len(list) THEN Len(list) ELSE end

\* The pagination both list operations end with.
ListPage(list, limit, offset) ==
    IF offset >= Len(list) THEN ListRet("", << >>)
    ELSE LET end == PageEnd(list, limit, offset) IN
         IF SliceInRange(list, offset, end)
         THEN ListRet("", SubSeq(list, offset + 1, end))
         ELSE Panicked

\* The four buckets the operations of the model touch.
Buckets(u, m, st, hb) == [users |-> u, images |-> m, settings |-> st, history |-> hb]

\* A list or media call as lcall records it.
ListCall(op, id, limit, offset, ret, after) ==
    [op |-> op, id |-> id, limit |-> limit, offset |-> offset, ret |-> ret,
     before |-> Buckets(users, media, settings, historyBucket), after |-> after]
NoListCall ==
    [op |-> "none", id |-> "", limit |-> 0, offset |-> 0, ret |-> ListRet("", << >>),
     before |-> Buckets(<< >>, << >>, << >>, << >>),
     after |-> Buckets(<< >>, << >>, << >>, << >>)]

\* Store.ListUsers(limit, offset)
ListUsers(limit, offset) ==
    /\ CanLock(storeMu)
    /\ lcall' = ListCall("ListUsers", "", limit, offset,
                         ListPage(AllUsers(users), limit, offset),
                         Buckets(users, media, settings, historyBucket))
    /\ UNCHANGED <<storeVars, wallClock, rateVars, chatVars, media, pager>>

\* Store.ListMedia(limit, offset)
ListMedia(limit, offset) ==
    /\ CanLock(storeMu)
    /\ \E list \in AllMedia(media) :
          lcall' = ListCall("ListMedia", "", limit, offset,
                            ListPage(list, limit, offset),
                            Buckets(users, media, settings, historyBucket))
    /\ UNCHANGED <<storeVars, wallClock, rateVars, chatVars, media, pager>>

\* A media call that changes the images bucket to after and returns err.
MediaCall(op, id, after, err) ==
    /\ CanLock(storeMu)
    /\ media' = after
    /\ lcall' = ListCall(op, id, 0, 0, ListRet(err, << >>),
                         Buckets(users, after, settings, historyBucket))
    /\ UNCHANGED <<storeVars, wallClock, rateVars, chatVars, pager>>

NotFound == "not found"

\* Store.SaveMedia(id, "photo", "", "u1")
SaveMedia(id) ==
    MediaCall("SaveMedia", id,
              Put(media, id, MarshalMedia([ZeroMedia EXCEPT !.ID = id, !.FileID = id,
                                               !.CreatedAt = Unix(wallClock)])),
              "")

\* Store.SetMediaR2(id, r2Key)
SetMediaR2(id, r2Key) ==
    IF id \notin DOMAIN media THEN MediaCall("SetMediaR2", id, media, NotFound)
    ELSE MediaCall("SetMediaR2", id,
                   Put(media, id, MarshalMedia([UnmarshalMedia(media[id])
                                                   EXCEPT !.R2Key = r2Key])),
                   "")

\* Store.SetMediaTags(id, tags)
SetMediaTags(id, tags) ==
    IF id \notin DOMAIN media THEN MediaCall("SetMediaTags", id, media, NotFound)
    ELSE MediaCall("SetMediaTags", id,
                   Put(media, id, MarshalMedia([UnmarshalMedia(media[id])
                                                   EXCEPT !.Tags = tags])),
                   "")

\* Store.DeleteMedia(id)
DeleteMedia(id) == MediaCall("DeleteMedia", id, Delete(media, id), "")

\* A client that reads the user list page by page: ListUsers(limit, 0),
\* ListUsers(limit, limit), ... until a page is empty.
NoPager == [state |-> "idle", limit |-> 0, offset |-> 0, acc |-> << >>, pages |-> 0]

PagerStart(limit) ==
    /\ pager.state = "idle"
    /\ pager' = [NoPager EXCEPT !.state = "paging", !.limit = limit]
    /\ UNCHANGED <<storeVars, wallClock, rateVars, chatVars, media, lcall>>

PagerNext ==
    LET ret == ListPage(AllUsers(users), pager.limit, pager.offset) IN
    /\ pager.state = "paging"
    /\ CanLock(storeMu)
    /\ pager' = IF ret.panicked THEN [pager EXCEPT !.state = "panicked"]
                ELSE IF ret.items = << >> THEN [pager EXCEPT !.state = "done"]
                ELSE [pager EXCEPT !.acc = @ \o ret.items,
                                   !.offset = AddInt(@, pager.limit),
                                   !.pages = @ + 1]
    /\ UNCHANGED <<storeVars, wallClock, rateVars, chatVars, media, lcall>>

\* A store over the users bucket ub and the images bucket mb.
InitStoreOver(ub, mb) ==
    /\ users = ub
    /\ users0 = ub
    /\ storeMu = NoProc
    /\ spc = [p \in AllProcs |-> "idle"]
    /\ scall = [p \in AllProcs |-> NoCall]
    /\ suser = [p \in AllProcs |-> NoLocal]
    /\ sconc = [p \in AllProcs |-> FALSE]
    /\ log = << >>
    /\ ncalls = 0
    /\ wallClock = WallStart
    /\ media = mb
    /\ lcall = NoListCall
    /\ pager = NoPager

\* ------------------------------------------------------------------ initial states

\* A record as GetOrCreateUser created it and the operations left it.
StoredUser(id, points, last) ==
    Marshal([ZeroUser EXCEPT !.ID = id, !.Username = "al", !.DisplayName = "Al",
                             !.Points = points, !.LastCheckin = last])

\* The day before the clock's first day: a check-in of an earlier run.
Yesterday == Today(WallStart - 24)

\* The users bucket at Init: u1 exists, u2 does not.
InitUsers == { ("u1" :> StoredUser("u1", 3, last)) : last \in {NoDay, Yesterday} }

InitStoreWith(bucket) == InitStoreOver(bucket, << >>)

\* ------------------------------------------------------------------ check-in

Rewards == {checkInReward}
CheckInCalls == {StoreCall("CheckIn", id, r, "", "") : id \in UserIDs, r \in Rewards}

InitCheckIn ==
    /\ \E b \in InitUsers : InitStoreWith(b)
    /\ InitManagerWith(<< >>)
    /\ InitChatWith(TRUE, << >>)

\* The two goroutines of concurrent check-ins.
CheckInProcs == {1, 2}

\* A goroutine calls CheckIn.
CheckInCall(p) ==
    /\ ncalls < MaxCalls
    /\ \E c \in CheckInCalls : Call(p, c)

NextCheckIn ==
    \/ \E p \in CheckInProcs :
         \/ CheckInCall(p)
         \/ Lock(p)
         \/ TxGet(p)
         \/ TxPut(p)
         \/ Unlock(p)
    \/ Tick

\* CheckIn calls of two goroutines under a non-decreasing clock.
SpecCheckIn == InitCheckIn /\ [][NextCheckIn]_vars


\* ------------------------------------------------------------------ C1, C2

\* The UTC+8 calendar day (days since the epoch) of a clock reading.
DayIndex(t) == (t + ZoneOffsetHours) \div 24

\* log[i] is a CheckIn of user id that found the user.
IsCheckIn(i, id) ==
    /\ log[i].call.op = "CheckIn"
    /\ log[i].call.id = id
    /\ ~log[i].ret.err

\* The CheckIn calls of user id before log[i] on the calendar day of log[i].
EarlierSameDay(i, id) ==
    {j \in 1..(i - 1) : IsCheckIn(j, id) /\ DayIndex(log[j].at) = DayIndex(log[i].at)}

\* The stored record of id in a bucket.
Stored(b, id) == Unmarshal(b[id])

\* C1: with a non-decreasing clock, the first CheckIn of a user on a UTC+8
\* calendar day returns gained = reward, adds the reward to the balance and
\* sets the last-check-in day; every other CheckIn of that day returns
\* gained = 0 and the balance the first one returned, and writes nothing.
C1_OncePerDay ==
    \A id \in UserIDs : \A i \in 1..Len(log) :
        IsCheckIn(i, id) =>
            LET e == log[i]
                earlier == EarlierSameDay(i, id)
            IN IF earlier = {}
               THEN /\ e.ret.gained = e.call.n
                    /\ Stored(e.after, id).Points = Stored(e.before, id).Points + e.call.n
                    /\ Stored(e.after, id).LastCheckin = Today(e.at)
                    /\ e.ret.user = Stored(e.after, id)
               ELSE /\ e.ret.gained = 0
                    /\ \A j \in earlier :
                         EarlierSameDay(j, id) = {} => e.ret.user.Points = log[j].ret.user.Points
                    /\ e.after = e.before

\* C1 witness: a rewarded check-in, a second one the same day that gains
\* nothing, and a rewarded one the next day.
C1_Witness ==
    /\ Len(log) = 3
    /\ \A i \in 1..3 : IsCheckIn(i, "u1")
    /\ DayIndex(log[1].at) = DayIndex(log[2].at)
    /\ DayIndex(log[3].at) = DayIndex(log[1].at) + 1
    /\ log[1].ret.gained = checkInReward
    /\ log[2].ret.gained = 0
    /\ log[3].ret.gained = checkInReward

\* C2: two CheckIn calls of one user that run concurrently and are the first
\* of their calendar day grant one reward: one returns gained = reward, the
\* other gained = 0, and the balance ends one reward above where it was.
C2_ConcurrentOnce ==
    \A id \in UserIDs : \A i, j \in 1..Len(log) :
        ( /\ i < j
          /\ IsCheckIn(i, id) /\ IsCheckIn(j, id)
          /\ log[i].proc # log[j].proc
          /\ log[i].conc /\ log[j].conc
          /\ DayIndex(log[i].at) = DayIndex(log[j].at)
          /\ EarlierSameDay(i, id) = {} )
        => /\ {log[i].ret.gained, log[j].ret.gained} = {0, log[i].call.n}
           /\ log[i].ret.gained + log[j].ret.gained = log[i].call.n
           /\ Stored(log[j].after, id).Points = Stored(log[i].before, id).Points + log[i].call.n

\* C2 witness: two check-ins that overlapped, both returned, one rewarded.
C2_Witness ==
    /\ Len(log) = 2
    /\ IsCheckIn(1, "u1") /\ IsCheckIn(2, "u1")
    /\ log[1].proc # log[2].proc
    /\ log[1].conc /\ log[2].conc
    /\ DayIndex(log[1].at) = DayIndex(log[2].at)
    /\ log[1].ret.gained = checkInReward
    /\ log[2].ret.gained = 0
    /\ \A p \in CheckInProcs : spc[p] = "idle"


\* ------------------------------------------------------------------ C3

\* The log entries of goroutine p.
CallsOf(p) == {i \in 1..Len(log) : log[i].proc = p}

\* One of the NAdders goroutines calls AddPoints("u1", +1), once.
AddPointsCall(p) ==
    /\ CallsOf(p) = {}
    /\ Call(p, StoreCall("AddPoints", "u1", 1, "", ""))

InitAddPoints ==
    /\ \E b \in InitUsers : InitStoreWith(b)
    /\ InitManagerWith(<< >>)
    /\ InitChatWith(TRUE, << >>)

NextAddPoints ==
    \/ \E p \in Adders :
         \/ AddPointsCall(p)
         \/ Lock(p)
         \/ TxGet(p)
         \/ TxPut(p)
         \/ Unlock(p)
    \/ Tick

\* NAdders goroutines, each calling AddPoints("u1", +1) once.
SpecAddPoints == InitAddPoints /\ [][NextAddPoints]_vars

\* The balances the AddPoints calls returned so far.
ReturnedBalances == {log[i].ret.user.Points : i \in 1..Len(log)}

\* C3: however the concurrent AddPoints(u, +1) calls interleave, the balance
\* is the initial balance plus the number of calls that ran, and the calls
\* returned the distinct balances initial+1 .. initial+that number; with all
\* N returned the balance is initial + N.
C3_NoLostUpdate ==
    LET init == Stored(users0, "u1").Points IN
    /\ \A i \in 1..Len(log) : ~log[i].ret.err
    /\ ReturnedBalances = (init + 1)..(init + Len(log))
    /\ (\A p \in Adders : spc[p] \in {"idle", "unlock"})
         => Stored(users, "u1").Points = init + Len(log)
    /\ (\A p \in Adders : CallsOf(p) # {} /\ spc[p] = "idle")
         => Stored(users, "u1").Points = init + NAdders

\* C3 witness: all N calls returned, and they overlapped.
C3_Witness ==
    /\ Len(log) = NAdders
    /\ \A p \in Adders : CallsOf(p) # {} /\ spc[p] = "idle"
    /\ \A i \in 1..Len(log) : log[i].conc
    /\ Stored(users, "u1").Points = Stored(users0, "u1").Points + NAdders


\* ------------------------------------------------------------------ C4

\* The user-mutating calls the goroutines of SpecStore choose from.
StoreCalls ==
    { StoreCall("GetOrCreateUser", "u1", 0, "bo", ""),
      StoreCall("GetOrCreateUser", "u2", 0, "cy", "Cy"),
      StoreCall("AddPoints", "u1", 1, "", ""),
      StoreCall("AddPoints", "u2", -1, "", ""),
      StoreCall("SetPoints", "u1", 7, "", ""),
      StoreCall("PromoteAdmin", "u1", 0, "", ""),
      StoreCall("CheckIn", "u1", checkInReward, "", ""),
      StoreCall("SetPersona", "u1", 0, "pirate", "") }

\* A goroutine calls one of the user operations.
StoreOpCall(p) ==
    /\ ncalls < MaxStoreCalls
    /\ \E c \in StoreCalls : Call(p, c)

InitStore ==
    /\ \E b \in InitUsers : InitStoreWith(b)
    /\ InitManagerWith(<< >>)
    /\ InitChatWith(TRUE, << >>)

NextStore ==
    \/ \E p \in Procs :
         \/ StoreOpCall(p)
         \/ Lock(p)
         \/ TxGet(p)
         \/ TxPut(p)
         \/ Unlock(p)

\* NProcs goroutines calling any mix of the user operations.
SpecStore == InitStore /\ [][NextStore]_vars

\* Call c run alone on bucket b at clock t: the whole operation, start to end.
SerialApply(b, c, t) ==
    IF c.id \in DOMAIN b
    THEN LET r == TxBody(TRUE, Unmarshal(b[c.id]), c, t)
         IN IF r.write THEN saveUser(b, r.user) ELSE b
    ELSE IF c.op = "GetOrCreateUser"
         THEN saveUser(b, TxBody(FALSE, ZeroUser, c, t).user)
         ELSE b

RECURSIVE SerialRun(_, _)
\* The calls of sequence l run one after the other on bucket b.
SerialRun(b, l) ==
    IF l = << >> THEN b
    ELSE SerialApply(SerialRun(b, SubSeq(l, 1, Len(l) - 1)),
                     l[Len(l)].call, l[Len(l)].at)

\* C4: the users bucket is always the one a serial execution of the calls
\* leaves (in the order their transactions ran), whatever the interleaving:
\* no operation overwrites a field another one changed.
C4_Serializable == users = SerialRun(users0, log)

\* C4 witness: a display-name refresh and a points change of the same user
\* overlapped, and the record shows both.
C4_Witness ==
    /\ \E i, j \in 1..Len(log) :
         /\ log[i].call.op = "AddPoints" /\ log[i].call.id = "u1"
         /\ log[j].call.op = "GetOrCreateUser" /\ log[j].call.id = "u1"
         /\ log[i].proc # log[j].proc
         /\ log[i].conc /\ log[j].conc
         /\ i < j
    /\ \A p \in Procs : spc[p] = "idle"
    /\ Stored(users, "u1").Username = "bo"
    /\ Stored(users, "u1").Points = Stored(users0, "u1").Points + 1


\* ------------------------------------------------------------------ C8, C9, C10

\* The limits an admin sets: disabled (negative, zero) and 1..MaxLimit.
Limits == (-1)..MaxLimit

InitRate ==
    /\ InitStoreWith("u1" :> StoredUser("u1", 3, NoDay))
    /\ \E b \in {<< >>} \cup {StoreSetRateLimit(<< >>, l) : l \in Limits} : InitManagerWith(b)
    /\ InitChatWith(TRUE, << >>)

NextRate ==
    \/ \E u \in UserIDs : ConsumeRateCall(u)
    \/ \E l \in Limits : SetRateLimit(l)
    \/ MonoTick

\* Requests of two users, limit changes and the passing of time.
SpecRate == InitRate /\ [][NextRate]_vars


\* The time from the start of the window the last request met to the request.
LastElapsed == lastReq.at - lastReq.before[lastReq.user].start

\* The last request met a window of its user.
LastHadWindow == lastReq.user \in DOMAIN lastReq.before

\* C8: while the limit L > 0 stays the same, the admitted requests of a
\* user's window are exactly its first L: the window's count is the number of
\* its admitted requests, which is min(requests, L), counting only that
\* user's requests; a rejection carries L and changes no window.
C8_FixedWindow ==
    /\ \A u \in DOMAIN rates :
         (wins[u].const /\ rateLimit > 0) =>
            /\ wins[u].adm = Min(wins[u].reqs, rateLimit)
            /\ rates[u].count = wins[u].adm
    /\ (nreqs > 0 /\ lastReq.err) =>
            /\ lastReq.max = lastReq.limit
            /\ rates = lastReq.before

\* C8 witness: a user's window took more requests than the limit, the last one
\* was rejected, while another user's window has its own count.
C8_Witness ==
    /\ rateLimit = 2
    /\ {"u1", "u2"} \subseteq DOMAIN rates
    /\ wins["u1"].const /\ wins["u1"].reqs = 3 /\ rates["u1"].count = 2
    /\ rates["u2"].count = 1
    /\ lastReq.user = "u1" /\ lastReq.err /\ lastReq.max = 2

\* C9: with a limit > 0, a request of a user with no window, or with a window
\* that started more than a minute before, is admitted and leaves the window
\* (start = now, count = 1); a request a minute or less after the start of
\* the window keeps the window's start.
C9_WindowOpening ==
    (nreqs > 0 /\ lastReq.limit > 0) =>
        LET u == lastReq.user IN
        IF ~LastHadWindow \/ LastElapsed > Minute
        THEN /\ ~lastReq.err
             /\ u \in DOMAIN rates
             /\ rates[u] = [start |-> lastReq.at, count |-> 1]
        ELSE /\ u \in DOMAIN rates
             /\ rates[u].start = lastReq.before[u].start

\* C9 witness: a request met a window older than a minute whose count had
\* reached the limit, and opened a new one.
C9_Witness ==
    /\ nreqs > 0 /\ lastReq.limit > 0
    /\ LastHadWindow
    /\ LastElapsed > Minute
    /\ lastReq.before[lastReq.user].count >= lastReq.limit
    /\ rates[lastReq.user] = [start |-> lastReq.at, count |-> 1]

\* C10: a request met by a limit <= 0 is admitted and no window is created
\* or changed, whatever windows exist.
C10_Disabled ==
    (nreqs > 0 /\ lastReq.limit <= 0) =>
        /\ ~lastReq.err
        /\ rates = lastReq.before

\* C10 witness: with the limit at 0, a request of a user whose window is
\* still open and has a count was admitted.
C10_Witness ==
    /\ nreqs > 0 /\ lastReq.limit = 0
    /\ LastHadWindow
    /\ LastElapsed <= Minute
    /\ lastReq.before[lastReq.user].count >= 1
    /\ ~lastReq.err


\* ------------------------------------------------------------------ C5, C6, C7

RECURSIVE PairHistory(_)
\* A history of n messages as turns without compaction leave it: user and
\* assistant messages in turn, each with its own content.
PairHistory(n) ==
    IF n = 0 THEN << >>
    ELSE Append(PairHistory(n - 1),
                Msg(IF n % 2 = 1 THEN "user" ELSE "assistant", <<"h">> \o FormatNat(n)))

\* The users that chat: u1 without a persona, u2 with one.
ChatUsers == {[ID |-> "u1", Persona |-> ""], [ID |-> "u2", Persona |-> "pirate"]}

\* The history bucket at Init: nothing stored, or a history of u1 that an
\* earlier run of the Manager saved, or a blob that does not decode.
InitHistoryBuckets ==
    {<< >>, "u1" :> Garbage}
        \cup {"u1" :> MarshalHistory(PairHistory(n)) :
                n \in {summaryThreshold - 1, summaryThreshold + 1, maxHistory}}

\* The answers of the completion service to a summarization request.
SummaryAnswers ==
    {ApiOk(<<"sum">>), ApiEmpty, ApiError("summary failed"), ApiError(DeadlineExceeded)}

InitChat ==
    /\ InitStoreWith("u1" :> StoredUser("u1", 3, NoDay))
    /\ \E l \in {0, 1} : InitManagerWith(StoreSetRateLimit(<< >>, l))
    /\ \E client \in BOOLEAN, hb \in InitHistoryBuckets : InitChatWith(client, hb)

NextChat ==
    \/ \E p \in ChatProcs :
         \/ \E user \in ChatUsers : ChatBegin(p, user)
         \/ \E resp \in SummaryAnswers : SummaryReturn(p, resp)
         \/ \E resp \in {ApiOk(Answer(cturn[p])), ApiEmpty, ApiError("completion failed")} :
              CompletionReturn(p, resp)
         \/ ChatAppend(p)
    \/ \E job \in saves : SaveChatHistory(job)

\* Chat turns of two goroutines for two users, with every answer the
\* completion service can give.
SpecChat == InitChat /\ [][NextChat]_vars

\* s is the end of t.
IsSuffix(s, t) ==
    /\ Len(s) <= Len(t)
    /\ \A i \in 1..Len(s) : s[i] = t[Len(t) - Len(s) + i]

\* C5: at every moment the cached history of every user, every blob handed
\* to SaveChatHistory (pending or stored) holds at most maxHistory messages,
\* and what an append keeps is the newest maxHistory messages (all of them
\* if there are fewer) of the history with the turn's pair.
C5_BoundedHistory ==
    /\ \A u \in DOMAIN histories : Len(histories[u]) <= maxHistory
    /\ \A job \in saves : Len(job.data.msgs) <= maxHistory
    /\ \A u \in DOMAIN historyBucket : Len(historyBucket[u].msgs) <= maxHistory
    /\ \A p \in ChatProcs :
         /\ Len(ccomp[p].kept) = Min(Len(ccomp[p].full), maxHistory)
         /\ IsSuffix(ccomp[p].kept, ccomp[p].full)

\* An append to a full history happened: the pair made it longer than
\* maxHistory, the oldest two were dropped, and the cut history is cached and
\* handed to SaveChatHistory.
C5_Witness ==
    \E p \in ChatProcs :
        /\ Len(ccomp[p].full) = maxHistory + 2
        /\ Len(ccomp[p].kept) = maxHistory
        /\ histories[cuser[p].ID] = ccomp[p].kept
        /\ \E job \in saves : job.user = cuser[p].ID /\ job.data = MarshalHistory(ccomp[p].kept)

\* C6: after a summarization that succeeded, the history it ran on was longer
\* than summaryThreshold, and the new history (the local one, and the cached
\* one) is one system message carrying the summary followed by the last
\* keepRecent messages of the old one, unchanged and in order.
C6_CompactionKeepsRecent ==
    \A p \in ChatProcs :
        ccomp[p].state = "done" =>
            LET pre == ccomp[p].pre
                post == ccomp[p].post
            IN
            /\ Len(pre) > summaryThreshold
            /\ Len(post) = 1 + keepRecent
            /\ post[1].Role = "system"
            /\ post[1].Content[1] = "Prior conversation summary: "
            /\ \A i \in 1..keepRecent : post[1 + i] = pre[Len(pre) - keepRecent + i]
            /\ ccomp[p].cacheAfter[cuser[p].ID] = post

\* A summarization of a history of maxHistory messages succeeded: the new
\* history has 1 + keepRecent messages, the second of them the first of the
\* old history's tail.
C6_Witness ==
    \E p \in ChatProcs :
        /\ ccomp[p].state = "done"
        /\ Len(ccomp[p].pre) = maxHistory
        /\ Len(ccomp[p].post) = 1 + keepRecent
        /\ ccomp[p].post[2] = ccomp[p].pre[maxHistory - keepRecent + 1]

\* The errors summarizeHistory can return under SpecChat.
SummaryErrors == {summarizeHistory(resp).err : resp \in SummaryAnswers} \ {""}

\* C7: after a summarization that failed (an error, no choice, the timeout),
\* the local and the cached history are what they were, no save was started,
\* the completion request went out with the uncompacted history, and Chat
\* does not return the summarization's error.
C7_SummaryFailureNotFatal ==
    \A p \in ChatProcs :
        ccomp[p].state = "failed" =>
            /\ ccomp[p].post = ccomp[p].pre
            /\ ccomp[p].cacheAfter = ccomp[p].cacheBefore
            /\ ccomp[p].savesAfter = ccomp[p].savesBefore
            /\ cpc[p] # "summarizing"
            /\ creq[p].messages =
                 SystemMessages(cuser[p]) \o ccomp[p].pre \o <<Msg("user", Prompt(cturn[p]))>>
            /\ cret[p].err \notin SummaryErrors

\* A turn whose summarization timed out went on and returned the answer of
\* the completion call.
C7_Witness ==
    \E p \in ChatProcs :
        /\ ccomp[p].state = "failed"
        /\ ccomp[p].err = DeadlineExceeded
        /\ cpc[p] = "idle"
        /\ cret[p] = ChatRet(Answer(cturn[p]), "")

\* ------------------------------------------------------------------ C11

NextRateLegacy ==
    \/ \E u \in LegacyUserIDs : LegacyConsumeRateCall(u)
    \/ \E l \in Limits : LegacySetRateLimit(l)
    \/ MonoTick

\* The earlier Manager: requests of two users, limit changes, the passing of
\* time.
SpecRateLegacy == InitRate /\ [][NextRateLegacy]_vars

\* C11: a step that changes the configured limit, in memory or in the store,
\* leaves every user's window (its start and its count) as it was.
C11_LimitChangeKeepsWindows ==
    [][(rateLimit' # rateLimit \/ settings' # settings) => rates' = rates]_vars

\* ------------------------------------------------------------------ C12

\* The number of user u's requests admitted, since the limit last changed,
\* in the minute that starts at time a.
AdmittedInMinute(u, a) ==
    Cardinality({i \in DOMAIN wins[u].admits :
                    a <= wins[u].admits[i] /\ wins[u].admits[i] <= a + Minute})

\* C12 as stated: while the limit is L > 0, every minute, wherever it starts,
\* holds at most L admitted requests of a user.
C12_SlidingWindow ==
    rateLimit > 0 =>
        \A u \in UserIDs : \A a \in 0..monoClock : AdmittedInMinute(u, a) <= rateLimit

\* C12 amended: while the limit is L > 0, a minute can span the end of one
\* window and the start of the next. A window starts with its first admitted
\* request and the next one starts more than a minute later, so the minute
\* holds at most L - 1 requests of the first and L of the second: 2 L - 1
\* admitted requests of a user; the minute that starts with the user's
\* current window holds at most L.
C12_FixedWindowBound ==
    rateLimit > 0 =>
        \A u \in UserIDs :
            /\ \A a \in 0..monoClock : AdmittedInMinute(u, a) <= 2 * rateLimit - 1
            /\ u \in DOMAIN rates => AdmittedInMinute(u, rates[u].start) <= rateLimit

\* With limit 2 a user had 3 requests admitted within one minute: the second
\* of a window and the two of the next.
C12_Witness ==
    /\ rateLimit = 2
    /\ \E a \in 0..monoClock : AdmittedInMinute("u1", a) = 3

\* ------------------------------------------------------------------ C13

\* C13: the step in which the rate limiter rejects a request is the whole
\* turn: a Chat call returns the rejection in it, no goroutine moves to the
\* summarization or the completion call, no request is built, and the cached
\* histories, the persisted histories, the pending saves and the model (in
\* memory and in the store) stay as they were.
C13_RejectedTurnDoesNothing ==
    [][(nreqs' # nreqs /\ lastReq'.err) =>
          /\ \E p \in ChatProcs :
                /\ cturn'[p] # cturn[p]
                /\ cret'[p] = ChatRet(<< >>, "rate limit exceeded")
          /\ cpc' = cpc
          /\ creq' = creq
          /\ histories' = histories
          /\ historyBucket' = historyBucket
          /\ saves' = saves
          /\ model' = model
          /\ settings' = settings]_vars

\* A user with a cached history had a turn rejected.
C13_Witness ==
    \E p \in ChatProcs :
        /\ cret[p] = ChatRet(<< >>, "rate limit exceeded")
        /\ lastReq.err /\ lastReq.user = cuser[p].ID
        /\ cuser[p].ID \in DOMAIN histories
        /\ Len(histories[cuser[p].ID]) > 0

\* ------------------------------------------------------------------ C14

\* The errors Chat returns when the completion call fails.
CompletionErrors == {"completion failed", "empty response", Canceled}

\* The history a goroutine's turn started from.
StartHistory(p) == IF ccomp[p].state = "none" THEN chist[p] ELSE ccomp[p].pre

\* C14 as stated, for the first turn of a Manager: once Chat has returned the
\* error of a failed completion call, the user's cached history, if there is
\* one, and the persisted history, if it decodes, are the history the turn
\* started from, and no write of the history is pending.
C14_FailedTurnKeepsHistory ==
    \A p \in ChatProcs :
        (nturns = 1 /\ cturn[p] = 1 /\ cpc[p] = "idle" /\ cret[p].err \in CompletionErrors) =>
            LET u == cuser[p].ID IN
            /\ u \in DOMAIN histories => histories[u] = StartHistory(p)
            /\ (u \in DOMAIN historyBucket /\ ~UnmarshalHistory(historyBucket[u]).err) =>
                  UnmarshalHistory(historyBucket[u]).history = StartHistory(p)
            /\ saves = {}

\* ------------------------------------------------------------------ C15

\* The cached history of user u, empty if there is none.
Cached(u) == IF u \in DOMAIN histories THEN histories[u] ELSE << >>

\* C15: the step that ends a successful turn leaves the user's cached history
\* ending with the turn's prompt (role user) immediately followed by its
\* answer (role assistant), everything before them being the end of the
\* history cached before the step; it touches no other user's history, starts
\* exactly one SaveChatHistory, with the new history of that user, and Chat
\* returns the answer of the completion call.
C15_AppendsOwnPair ==
    [][\A p \in ChatProcs :
          (cpc[p] = "append" /\ cpc'[p] = "idle") =>
             LET u == cuser[p].ID
                 old == Cached(u)
                 new == histories'[u]
                 n == Len(new)
             IN
             /\ n = Min(Len(old) + 2, maxHistory)
             /\ new[n - 1] = Msg("user", Prompt(cturn[p]))
             /\ new[n] = Msg("assistant", Answer(cturn[p]))
             /\ IsSuffix(SubSeq(new, 1, n - 2), old)
             /\ \A v \in DOMAIN histories \ {u} : histories'[v] = histories[v]
             /\ saves \subseteq saves'
             /\ Cardinality(saves' \ saves) = 1
             /\ \A job \in saves' \ saves : job.user = u /\ job.data = MarshalHistory(new)
             /\ cret'[p] = ChatRet(Answer(cturn[p]), "")]_vars

\* Two turns of the same user overlapped, both built their request from the
\* empty history, and both appended: the cached history is the two pairs,
\* one after the other.
C15_Witness ==
    /\ \A p \in ChatProcs : cpc[p] = "idle" /\ Len(creq[p].messages) = Len(defaultSystemMessages) + 1
    /\ "u1" \in DOMAIN histories
    /\ Len(histories["u1"]) = 4
    /\ \E m, n \in 1..MaxTurns :
          /\ m # n
          /\ histories["u1"] = TurnPair(Prompt(m), Answer(m)) \o TurnPair(Prompt(n), Answer(n))

\* ------------------------------------------------------------------ C16

\* No turn is in flight and every SaveChatHistory that was started has run.
Quiescent == (\A p \in ChatProcs : cpc[p] = "idle") /\ saves = {}

\* C16 as stated: once no turn is in flight and all the writes have run, the
\* persisted history of every user with a cached history is that cached
\* history.
C16_PersistedIsLatest ==
    Quiescent =>
        \A u \in DOMAIN histories :
            /\ u \in DOMAIN historyBucket
            /\ historyBucket[u] = MarshalHistory(histories[u])

\* ------------------------------------------------------------------ C17

\* The sequence h holds the pair of turn n: its prompt immediately followed
\* by its answer.
HasPair(h, n) ==
    \E i \in 1..(Len(h) - 1) :
        h[i] = Msg("user", Prompt(n)) /\ h[i + 1] = Msg("assistant", Answer(n))

\* The last turn of goroutine p succeeded and has appended its pair.
Appended(p) == cpc[p] = "idle" /\ ccomp[p].full # << >>

\* C17 as stated: when two turns of the same user have both appended, the
\* request of the one that appended second (its append met the other's pair
\* in the cache) contains the pair of the one that appended first, as it
\* would after any serial execution of the two.
C17_AsIfSerialized ==
    \A p, q \in ChatProcs :
        (/\ p # q
         /\ cuser[p].ID = cuser[q].ID
         /\ Appended(p) /\ Appended(q)
         /\ HasPair(ccomp[q].full, cturn[p])) =>
            HasPair(creq[q].messages, cturn[p])

\* ------------------------------------------------------------------ C18

\* Goroutine p has an external call in flight: the summarization sub-call or
\* the primary completion call.
CallInFlight(p) == cpc[p] \in {"summarizing", "completing"}

\* C18 as stated: no goroutine holds Manager.mu while it has an external call
\* in flight.
C18_NoLockAcrossCall ==
    \A p \in ChatProcs : CallInFlight(p) => mgrMu # p

\* ------------------------------------------------------------------ C19, C20

\* A Manager over a store holding a history of u1 that is over the
\* summarization threshold.
InitCtx ==
    /\ InitStoreWith("u1" :> StoredUser("u1", 3, NoDay))
    /\ InitManagerWith(StoreSetRateLimit(<< >>, 0))
    /\ InitChatWith(TRUE, "u1" :> MarshalHistory(PairHistory(summaryThreshold + 1)))

\* Chat turns of u1 whose caller may cancel, with a completion service that
\* may answer the summarization sub-call or not.
NextCtx ==
    \/ \E p \in ChatProcs :
         \/ ChatBegin(p, [ID |-> "u1", Persona |-> ""])
         \/ \E resp \in SummaryAnswers \ {ApiError(DeadlineExceeded)} : SummaryAnswer(p, resp)
         \/ SummaryTimeout(p)
         \/ \E resp \in {ApiOk(Answer(cturn[p])), ApiEmpty, ApiError("completion failed"),
                         ApiError(Canceled)} :
              CompletionReturn(p, resp)
         \/ ChatAppend(p)
         \/ Cancel(p)
    \/ \E job \in saves : SaveChatHistory(job)

\* The timer of the sub-call's context runs on its own: while the sub-call
\* is in flight its deadline, if it has one, passes at some point.
SpecCtx ==
    InitCtx /\ [][NextCtx]_vars /\ \A p \in ChatProcs : WF_vars(SummaryTimeout(p))

\* C19 as stated: once the caller's ctx was cancelled during the
\* summarization sub-call and that call is over, the call was aborted with
\* the context's error, no completion call was started, and Chat has
\* returned that error; once it was cancelled during the completion call and
\* the turn is over, Chat has returned that error and appended nothing.
C19_CancelAborts ==
    \A p \in ChatProcs :
        /\ (cctx[p] = "summarizing" /\ cpc[p] # "summarizing") =>
              /\ ccomp[p].state = "failed" /\ ccomp[p].err = Canceled
              /\ cpc[p] = "idle"
              /\ creq[p] = NoRequest
              /\ cret[p] = ChatRet(<< >>, Canceled)
        /\ (cctx[p] = "completing" /\ cpc[p] # "completing") =>
              /\ cpc[p] = "idle"
              /\ cret[p] = ChatRet(<< >>, Canceled)
              /\ ccomp[p].full = << >>

\* C20: a goroutine waiting for the summarization sub-call leaves that wait,
\* answer or no answer; and whenever the wait ended by the sub-call's
\* deadline, the compaction was skipped and the turn went on to the
\* completion call with the uncompacted history.
C20_StuckSummaryEnds ==
    /\ \A p \in ChatProcs : (cpc[p] = "summarizing") ~> (cpc[p] # "summarizing")
    /\ [](\A p \in ChatProcs :
            (ccomp[p].state = "failed" /\ ccomp[p].err = DeadlineExceeded) =>
               /\ cpc[p] # "summarizing"
               /\ ccomp[p].post = ccomp[p].pre
               /\ ccomp[p].cacheAfter = ccomp[p].cacheBefore
               /\ creq[p].messages =
                    SystemMessages(cuser[p]) \o ccomp[p].pre \o <<Msg("user", Prompt(cturn[p]))>>)

\* A summarization sub-call ended by its deadline and the turn is waiting
\* for the completion call, with the request built from the 16 messages.
C20_Witness ==
    \E p \in ChatProcs :
        /\ ccomp[p].state = "failed" /\ ccomp[p].err = DeadlineExceeded
        /\ cpc[p] = "completing"
        /\ Len(ccomp[p].pre) = summaryThreshold + 1
        /\ Len(creq[p].messages) = Len(defaultSystemMessages) + summaryThreshold + 2

\* ------------------------------------------------------------------ C21

\* The turn of goroutine p has sent its completion request.
RequestSent(p) == cpc[p] \in {"completing", "append"}

\* C21: the messages of a request sent are, in this order: the user's
\* persona as a system message if it is not empty, the two baseline system
\* messages, the turn's history (compacted if the compaction ran) message by
\* message, and last the turn's prompt as a user message.
C21_RequestOrder ==
    \A p \in ChatProcs :
        RequestSent(p) =>
            LET msgs == creq[p].messages
                persona == cuser[p].Persona
                k == IF persona # "" THEN 1 ELSE 0
                b == Len(defaultSystemMessages)
                h == chist[p]
            IN
            /\ Len(msgs) = k + b + Len(h) + 1
            /\ persona # "" => msgs[1] = Msg("system", <<persona>>)
            /\ \A i \in 1..b : msgs[k + i] = defaultSystemMessages[i]
            /\ \A i \in 1..Len(h) : msgs[k + b + i] = h[i]
            /\ msgs[Len(msgs)] = Msg("user", Prompt(cturn[p]))

\* A user with a persona and a history of one earlier turn has a request out.
C21_Witness ==
    \E p \in ChatProcs :
        /\ cpc[p] = "completing"
        /\ cuser[p].Persona # ""
        /\ Len(chist[p]) = 2
        /\ Len(creq[p].messages) = 1 + Len(defaultSystemMessages) + 2 + 1

\* ------------------------------------------------------------------ C22

\* C22 as stated: every request sent has at most maxHistory messages.
C22_RequestWithinCeiling ==
    \A p \in ChatProcs : RequestSent(p) => Len(creq[p].messages) <= maxHistory

\* ------------------------------------------------------------------ C23

\* A Manager created with the configured model "gpt" over a store in which
\* no model, the empty model or the model "gpt-4" was set before.
InitModel ==
    /\ InitStoreWith("u1" :> StoredUser("u1", 3, NoDay))
    /\ \E b \in {<< >>, StoreSetModel(<< >>, ""), StoreSetModel(<< >>, "gpt-4")} :
          InitManagerWith(StoreSetRateLimit(b, 0))
    /\ \E hb \in {<< >>, "u1" :> MarshalHistory(PairHistory(summaryThreshold + 1))} :
          InitChatWith(TRUE, hb)

\* Chat turns over such a store.
SpecModel == InitModel /\ [][NextChat]_vars

\* C23 as stated (Chat takes no per-call override): the model of a request
\* sent is the Manager's in-memory model whenever that is not empty.
C23_ProcessDefaultFirst ==
    \A p \in ChatProcs :
        (RequestSent(p) /\ model # "") => creq[p].model = model

\* ------------------------------------------------------------------ C24

\* A history of n messages as a compaction and the turns after it leave it:
\* the summary message, then user and assistant messages.
SummarizedHistory(n) == <<SummaryMsg(<<"old">>)>> \o PairHistory(n - 1)

\* A store holding no history, a history of u1 as the Manager saves it (at
\* the summarization threshold, above it, above it and starting with a
\* summary), a blob that is no JSON, or a JSON array whose third element is
\* no message.
InitLoad ==
    /\ InitStoreWith("u1" :> StoredUser("u1", 3, NoDay))
    /\ InitManagerWith(StoreSetRateLimit(<< >>, 0))
    /\ \E hb \in {<< >>, "u1" :> Garbage, "u1" :> BadElement(PairHistory(2)),
                  "u1" :> MarshalHistory(PairHistory(summaryThreshold)),
                  "u1" :> MarshalHistory(PairHistory(summaryThreshold + 1)),
                  "u1" :> MarshalHistory(SummarizedHistory(summaryThreshold + 2))} :
          InitChatWith(TRUE, hb)

\* Chat turns over such a store.
SpecLoad == InitLoad /\ [][NextChat]_vars

\* C24 as stated: a turn that is admitted starts from the cached history of
\* its user if there is one; else from the messages of the stored blob if it
\* decodes; else (no blob, or a blob that does not decode) from the empty
\* history; and it returns no error at that point.
C24_LoadHistory ==
    [][\A p \in ChatProcs :
          (cturn'[p] # cturn[p] /\ cpc'[p] # "idle") =>
             LET u == cuser'[p].ID IN
             /\ chist'[p] =
                  IF u \in DOMAIN histories THEN histories[u]
                  ELSE IF u \in DOMAIN historyBucket /\ historyBucket[u].kind = "json"
                  THEN [i \in 1..Len(historyBucket[u].msgs) |->
                          Msg(historyBucket[u].msgs[i].role, historyBucket[u].msgs[i].content)]
                  ELSE << >>
             /\ cret'[p].err = ""]_vars

\* ------------------------------------------------------------------ C25

\* The fixed prefix of a summary turn.
SummaryPrefix == "Prior conversation summary: "

\* C25: a history that a compaction produced starts with a system message
\* whose content begins with the fixed prefix; and the conversation sent to
\* the summarizer has one line for each message of the older part of the
\* turn's history, labelled "Context" if the message is a system message
\* (the summary turn of an earlier compaction) and with its own role if it is
\* a user or an assistant message.
C25_SummaryTurnMarked ==
    \A p \in ChatProcs :
        /\ ccomp[p].state = "done" =>
              /\ ccomp[p].post[1].Role = "system"
              /\ ccomp[p].post[1].Content[1] = SummaryPrefix
        /\ ccomp[p].sumreq # << >> =>
              LET h == StartHistory(p)
                  req == ccomp[p].sumreq
              IN
              /\ Len(req) = Len(h) - keepRecent
              /\ \A i \in 1..Len(req) :
                    /\ req[i].content = h[i].Content
                    /\ h[i].Role = "system" => req[i].label = "Context"
                    /\ h[i].Role \in {"user", "assistant"} => req[i].label = h[i].Role

\* A history that starts with the summary turn of an earlier compaction was
\* compacted again: the summarizer got that turn as Context, followed by user
\* and assistant lines, and the new history starts with a new summary turn.
C25_Witness ==
    \E p \in ChatProcs :
        /\ ccomp[p].state = "done"
        /\ ccomp[p].pre[1] = SummaryMsg(<<"old">>)
        /\ ccomp[p].sumreq[1] = [label |-> "Context", content |-> <<SummaryPrefix, "old">>]
        /\ ccomp[p].sumreq[2].label = "user"
        /\ ccomp[p].post[1] = SummaryMsg(<<"sum">>)

\* ------------------------------------------------------------------ C26

\* C26: a goroutine starts waiting for the summarization sub-call only in
\* the step that begins a turn (so at most once a turn) and only with a
\* history of more than summaryThreshold messages; a turn admitted with a
\* history above the threshold always does; a turn admitted with at most
\* summaryThreshold messages goes straight to the completion call, its
\* history as loaded and no compaction recorded.
C26_CompactionAboveThreshold ==
    [][\A p \in ChatProcs :
          /\ (cpc'[p] = "summarizing" /\ cpc[p] # "summarizing") =>
                /\ cpc[p] = "idle"
                /\ cturn'[p] # cturn[p]
                /\ Len(chist'[p]) > summaryThreshold
          /\ (cturn'[p] # cturn[p] /\ cpc'[p] # "idle") =>
                /\ Len(chist'[p]) > summaryThreshold => cpc'[p] = "summarizing"
                /\ Len(chist'[p]) <= summaryThreshold =>
                      /\ cpc'[p] = "completing"
                      /\ ccomp'[p] = NoComp
                      /\ chist'[p] = LoadHistory(histories, historyBucket, cuser'[p].ID).history
                      /\ SubSeq(creq'[p].messages,
                                Len(creq'[p].messages) - Len(chist'[p]),
                                Len(creq'[p].messages) - 1) = chist'[p]]_vars

\* A turn that loaded exactly summaryThreshold messages is waiting for the
\* completion call without any summarization.
C26_Witness ==
    \E p \in ChatProcs :
        /\ cpc[p] = "completing"
        /\ Len(chist[p]) = summaryThreshold
        /\ ccomp[p] = NoComp
        /\ Len(creq[p].messages) = Len(defaultSystemMessages) + summaryThreshold + 1

\* ------------------------------------------------------------------ C27

\* The limits and offsets of the list calls: small ones and the largest int.
PageArgs == (0..MaxPage) \cup {MaxInt}

\* A media record as SaveMedia stored it at the second at.
StoredMedia(id, at) ==
    MarshalMedia([ZeroMedia EXCEPT !.ID = id, !.FileID = id, !.CreatedAt = at])

\* The users buckets of a listed store: any of the MaxUsers users.
ListedUsers == {[id \in S |-> StoredUser(id, 3, NoDay)] : S \in SUBSET ListIDs}

\* Its images buckets: empty, one item, three items saved second after
\* second, three items of which two were saved in the same second.
ListedMedia ==
    LET t == Unix(WallStart) IN
    {<< >>,
     "m1" :> StoredMedia("m1", t),
     ("m1" :> StoredMedia("m1", t)) @@ ("m2" :> StoredMedia("m2", t + 1))
        @@ ("m3" :> StoredMedia("m3", t + 2)),
     ("m1" :> StoredMedia("m1", t + 1)) @@ ("m2" :> StoredMedia("m2", t))
        @@ ("m3" :> StoredMedia("m3", t + 1))}

InitList ==
    /\ \E ub \in ListedUsers, mb \in ListedMedia : InitStoreOver(ub, mb)
    /\ InitManagerWith(<< >>)
    /\ InitChatWith(TRUE, << >>)

NextList ==
    \E limit \in PageArgs, offset \in PageArgs :
        \/ ListUsers(limit, offset)
        \/ ListMedia(limit, offset)

\* List calls with any limit and offset over a store nobody writes to.
SpecList == InitList /\ [][NextList]_vars

\* All users of the bucket b in ascending order of their IDs.
UsersAscending(b) ==
    CHOOSE s \in Perms({Unmarshal(b[k]) : k \in DOMAIN b}) :
        \A i, j \in 1..Len(s) : i < j => StringLess(s[i].ID, s[j].ID)

\* The orders of all media of the bucket b that descend by creation time.
MediaDescending(b) ==
    {s \in Perms({UnmarshalMedia(b[k]) : k \in DOMAIN b}) :
        \A i, j \in 1..Len(s) : i < j => s[i].CreatedAt >= s[j].CreatedAt}

\* ret is the page [offset, min(offset + limit, total)) of list, returned
\* without error.
IsPageOf(ret, list, limit, offset) ==
    LET total == Len(list)
        end == IF limit >= total - offset THEN total ELSE offset + limit
    IN /\ ~ret.panicked
       /\ ret.err = ""
       /\ ret.items = IF offset >= total THEN << >> ELSE SubSeq(list, offset + 1, end)
       /\ Len(ret.items) = Min(limit, Max(0, total - offset))

\* C27 as stated: for any limit >= 0 and offset >= 0, ListUsers returns the
\* elements at the positions [offset, min(offset + limit, total)) of all
\* users in ascending ID order, ListMedia the same slice of all media in
\* descending order of creation time; the result has min(limit,
\* max(0, total - offset)) elements, and none, without error, for an offset
\* at or beyond total.
C27_ListPagination ==
    /\ lcall.op = "ListUsers" =>
          IsPageOf(lcall.ret, UsersAscending(lcall.before.users),
                   lcall.limit, lcall.offset)
    /\ lcall.op = "ListMedia" =>
          \E list \in MediaDescending(lcall.before.images) :
              IsPageOf(lcall.ret, list, lcall.limit, lcall.offset)

\* ------------------------------------------------------------------ C28

NextPages ==
    \/ \E limit \in PageArgs \ {0} : PagerStart(limit)
    \/ PagerNext

\* A client paging through the users of a store nobody writes to.
SpecPages == InitList /\ [][NextPages]_vars

\* C28: when the client that read ListUsers(limit, 0), ListUsers(limit,
\* limit), ... met the empty page, the pages it read, one after the other,
\* are every stored user exactly once in ascending ID order; no page fails.
C28_PaginationComplete ==
    /\ pager.state # "panicked"
    /\ pager.state = "done" => pager.acc = UsersAscending(users)

\* All MaxUsers users were read in more than one page.
C28_Witness ==
    /\ pager.state = "done"
    /\ pager.pages >= 2
    /\ Len(pager.acc) = MaxUsers

\* ------------------------------------------------------------------ C29

\* The user operations that change a record and do not create one.
UserMutations == {"AddPoints", "SetPoints", "PromoteAdmin", "CheckIn", "SetPersona"}

\* Each of them for u2, whom the store does not know until GetOrCreateUser
\* creates the record, and two calls that write.
MissingCalls ==
    { StoreCall("AddPoints", "u2", 1, "", ""),
      StoreCall("SetPoints", "u2", 7, "", ""),
      StoreCall("PromoteAdmin", "u2", 0, "", ""),
      StoreCall("CheckIn", "u2", checkInReward, "", ""),
      StoreCall("SetPersona", "u2", 0, "pirate", ""),
      StoreCall("GetOrCreateUser", "u2", 0, "cy", "Cy"),
      StoreCall("AddPoints", "u1", 1, "", "") }

\* A goroutine calls one of them.
MissingCall(p) ==
    /\ ncalls < MaxStoreCalls
    /\ \E c \in MissingCalls : Call(p, c)

\* A store that knows u1 and holds a media item, a rate limit and a history.
InitMissing ==
    /\ \E b \in InitUsers :
          InitStoreOver(b, "m1" :> StoredMedia("m1", Unix(WallStart)))
    /\ InitManagerWith(StoreSetRateLimit(<< >>, 1))
    /\ InitChatWith(TRUE, "u1" :> MarshalHistory(PairHistory(2)))

NextMissing ==
    \E p \in Procs :
        \/ MissingCall(p)
        \/ Lock(p)
        \/ TxGet(p)
        \/ TxPut(p)
        \/ Unlock(p)

\* NProcs goroutines calling the user operations for a user the store may
\* not know.
SpecMissing == InitMissing /\ [][NextMissing]_vars

\* The transaction of p's call is about to read a record that is not there.
MeetsNoRecord(p) ==
    /\ spc[p] = "locked"
    /\ scall[p].op \in UserMutations
    /\ scall[p].id \notin DOMAIN users

\* C29: AddPoints, SetPoints, PromoteAdmin, CheckIn and SetPersona for an
\* ID without a user record return an error, create no record and leave
\* every bucket as it was.
C29_NotFoundUser ==
    [][\A p \in Procs :
          (MeetsNoRecord(p) /\ spc'[p] # spc[p]) =>
             /\ spc'[p] = "unlock"
             /\ log' = Append(log, log'[Len(log')])
             /\ log'[Len(log')].call = scall[p]
             /\ log'[Len(log')].ret.err
             /\ log'[Len(log')].ret.user = ZeroUser
             /\ scall[p].id \notin DOMAIN users'
             /\ Buckets(users', media', settings', historyBucket')
                  = Buckets(users, media, settings, historyBucket)]_vars

\* SetPersona for the unknown u2 returned its error and the caller is back.
C29_Witness ==
    /\ \E i \in 1..Len(log) :
          /\ log[i].call.op = "SetPersona"
          /\ log[i].call.id \notin DOMAIN log[i].before
          /\ log[i].ret.err
          /\ spc[log[i].proc] = "idle"
    /\ users = users0

\* ------------------------------------------------------------------ C30

MediaIDs == {"m1", "m2"}

InitMedia ==
    /\ \E mb \in {<< >>, "m1" :> StoredMedia("m1", Unix(WallStart))} :
          InitStoreOver("u1" :> StoredUser("u1", 3, NoDay), mb)
    /\ InitManagerWith(<< >>)
    /\ InitChatWith(TRUE, << >>)

NextMedia ==
    \/ \E id \in MediaIDs :
         \/ SaveMedia(id)
         \/ \E r2Key \in {"", "k1"} : SetMediaR2(id, r2Key)
         \/ \E tags \in {<< >>, <<"cat">>} : SetMediaTags(id, tags)
         \/ DeleteMedia(id)
    \/ Tick

\* The media operations, for items the store holds and for others.
SpecMedia == InitMedia /\ [][NextMedia]_vars

\* C30 as stated: SetMediaR2, SetMediaTags and DeleteMedia for an ID
\* without a media record each return a not-found error and leave the store
\* unchanged.
C30_NotFoundMedia ==
    (/\ lcall.op \in {"SetMediaR2", "SetMediaTags", "DeleteMedia"}
     /\ lcall.id \notin DOMAIN lcall.before.images)
        => (lcall.ret.err = NotFound /\ lcall.after = lcall.before)

\* ------------------------------------------------------------------ C31

\* A record as the earlier store wrote it: the ID is a JSON number, the key
\* its decimal string.
LegacyUser(n, points, last) ==
    [StoredUser(Itoa(n), points, last) EXCEPT !.id = [t |-> "number", v |-> n]]

\* The users bucket at Init: u1 as this store wrote it, alone or beside the
\* user 2 as the earlier store wrote it.
InitUsersLegacy ==
    {"u1" :> StoredUser("u1", 3, NoDay),
     ("u1" :> StoredUser("u1", 3, NoDay)) @@ ("2" :> LegacyUser(2, 5, Yesterday))}

\* Calls of every user operation for the stored users and for new ones.
UserCalls ==
    { StoreCall("GetOrCreateUser", "u1", 0, "bo", ""),
      StoreCall("GetOrCreateUser", "u2", 0, "cy", "Cy"),
      StoreCall("GetOrCreateUser", "2", 0, "", "Di"),
      StoreCall("AddPoints", "2", 1, "", ""),
      StoreCall("AddPoints", "u2", 1, "", ""),
      StoreCall("SetPoints", "u2", 7, "", ""),
      StoreCall("PromoteAdmin", "u1", 0, "", ""),
      StoreCall("CheckIn", "2", checkInReward, "", ""),
      StoreCall("SetPersona", "2", 0, "pirate", "") }

\* A goroutine calls one of them.
UserCall(p) ==
    /\ ncalls < MaxStoreCalls
    /\ \E c \in UserCalls : Call(p, c)

InitUsersSpec ==
    /\ \E b \in InitUsersLegacy : InitStoreWith(b)
    /\ InitManagerWith(<< >>)
    /\ InitChatWith(TRUE, << >>)

NextUsers ==
    \E p \in Procs :
        \/ UserCall(p)
        \/ Lock(p)
        \/ TxGet(p)
        \/ TxPut(p)
        \/ Unlock(p)

\* NProcs goroutines calling the user operations over a store that may hold
\* a record of the earlier format.
SpecUsers == InitUsersSpec /\ [][NextUsers]_vars

\* C31: there is one user record per ID, the record under key k has ID k,
\* no user record ever goes away, and a record comes into being only by a
\* GetOrCreateUser call for an ID the store did not hold.
C31_UsersUniquePermanent ==
    /\ \A k \in DOMAIN users : Unmarshal(users[k]).ID = k
    /\ \A k1, k2 \in DOMAIN users :
          Unmarshal(users[k1]).ID = Unmarshal(users[k2]).ID => k1 = k2
    /\ DOMAIN users0 \subseteq DOMAIN users
    /\ users = IF log = << >> THEN users0 ELSE log[Len(log)].after
    /\ \A i \in 1..Len(log) :
          LET e == log[i] IN
          /\ e.before = IF i = 1 THEN users0 ELSE log[i - 1].after
          /\ DOMAIN e.before \subseteq DOMAIN e.after
          /\ DOMAIN e.after # DOMAIN e.before =>
                /\ e.call.op = "GetOrCreateUser"
                /\ e.call.id \notin DOMAIN e.before
                /\ DOMAIN e.after = DOMAIN e.before \cup {e.call.id}

\* Beside the record of the earlier format, u2 was created and then changed.
C31_Witness ==
    /\ "2" \in DOMAIN users0
    /\ Len(log) = 2
    /\ log[1].call.op = "GetOrCreateUser" /\ log[1].call.id = "u2"
    /\ log[2].call.op \in {"AddPoints", "SetPoints"} /\ ~log[2].ret.err
    /\ DOMAIN users = {"u1", "u2", "2"}

\* ------------------------------------------------------------------ C32

\* The records of bucket a other than id are those of bucket b.
SameButFor(a, b, id) ==
    /\ DOMAIN a \ {id} = DOMAIN b \ {id}
    /\ \A k \in DOMAIN a \ {id} : a[k] = b[k]

\* C32: GetOrCreateUser for an unknown ID creates a record with no points,
\* no check-in day, no admin flag and no persona; for a known ID it keeps
\* points, check-in day, admin flag and persona and replaces username and
\* display name only by a non-empty argument; the same call once more
\* changes nothing.
C32_GetOrCreateIdempotent ==
    \A i \in 1..Len(log) :
        LET e == log[i]
            c == e.call
            new == Unmarshal(e.after[c.id])
            old == Unmarshal(e.before[c.id])
        IN c.op = "GetOrCreateUser" =>
            /\ ~e.ret.err
            /\ c.id \in DOMAIN e.after
            /\ e.ret.user = new
            /\ SameButFor(e.after, e.before, c.id)
            /\ c.id \notin DOMAIN e.before =>
                  new = [ID |-> c.id, Username |-> c.s1, Points |-> 0,
                         LastCheckin |-> NoDay, IsAdmin |-> FALSE,
                         DisplayName |-> c.s2, Persona |-> ""]
            /\ c.id \in DOMAIN e.before =>
                  /\ new.ID = old.ID
                  /\ new.Points = old.Points
                  /\ new.LastCheckin = old.LastCheckin
                  /\ new.IsAdmin = old.IsAdmin
                  /\ new.Persona = old.Persona
                  /\ new.Username = IF c.s1 # "" THEN c.s1 ELSE old.Username
                  /\ new.DisplayName = IF c.s2 # "" THEN c.s2 ELSE old.DisplayName
            /\ (i > 1 /\ log[i - 1].call = c) => e.after = e.before

\* GetOrCreateUser("2", "", "Di") ran twice over the record of the earlier
\* format, which had points and a check-in day.
C32_Witness ==
    /\ Len(log) = 2
    /\ log[1].call = StoreCall("GetOrCreateUser", "2", 0, "", "Di")
    /\ log[2].call = log[1].call
    /\ "2" \in DOMAIN users0
    /\ log[1].after # log[1].before
    /\ Unmarshal(users["2"]).Points = 5

\* ------------------------------------------------------------------ C33

\* What an operation returns when s.db.Update returned an error: no user,
\* and gained 0.
TxFailReturnSwallowed(c, b) == TxReturn(c, b)
TxFailReturn(c, b) == Ret(TRUE, ZeroUser, 0)

\* The write transaction fails: saveUser or the commit returns an error, and
\* bbolt rolls the transaction back.
TxFail(p) ==
    LET c == scall[p]
        b == TxBody(suser[p].found, suser[p].u, c, wallClock)
    IN
    /\ spc[p] = "got"
    /\ b.write
    /\ suser' = [suser EXCEPT ![p].u = b.user]
    /\ log' = Append(log, LogEntry(p, c, users, users, TxFailReturn(c, b)))
    /\ spc' = [spc EXCEPT ![p] = "unlock"]
    /\ UNCHANGED <<users, users0, storeMu, scall, sconc, ncalls, wallClock>>
    /\ UNCHANGED nonStoreVars

\* The operations that write a balance or a check-in day, for u1.
BalanceCalls ==
    { StoreCall("AddPoints", "u1", 1, "", ""),
      StoreCall("SetPoints", "u1", 7, "", ""),
      StoreCall("CheckIn", "u1", checkInReward, "", "") }

\* A goroutine calls one of them.
BalanceCall(p) ==
    /\ ncalls < MaxStoreCalls
    /\ \E c \in BalanceCalls : Call(p, c)

InitFail ==
    /\ \E b \in InitUsers : InitStoreWith(b)
    /\ InitManagerWith(<< >>)
    /\ InitChatWith(TRUE, << >>)

\* The goroutine making these calls, one after the other.
FailProcs == {1}

NextFail ==
    \/ \E p \in FailProcs :
         \/ BalanceCall(p)
         \/ Lock(p)
         \/ TxGet(p)
         \/ TxPut(p)
         \/ TxFail(p)
         \/ Unlock(p)
    \/ Tick

\* Balance and check-in writes over a store whose write transactions may
\* fail.
SpecFail == InitFail /\ [][NextFail]_vars

\* C33: a call of AddPoints, SetPoints or CheckIn that returns an error
\* returns no user and gained 0 and leaves the stored balance and check-in
\* day as they were; a call that returns success returns the record as it
\* is stored, with the change it reports.
C33_FailuresAreLoud ==
    \A i \in 1..Len(log) :
        LET e == log[i]
            c == e.call
            old == Unmarshal(e.before[c.id])
            new == Unmarshal(e.after[c.id])
        IN c.op \in {"AddPoints", "SetPoints", "CheckIn"} =>
            /\ e.ret.err =>
                  /\ e.ret.user = ZeroUser
                  /\ e.ret.gained = 0
                  /\ e.after = e.before
            /\ ~e.ret.err =>
                  /\ e.ret.user = new
                  /\ new.Points =
                        CASE c.op = "AddPoints" -> old.Points + c.n
                          [] c.op = "SetPoints" -> c.n
                          [] c.op = "CheckIn" -> old.Points + e.ret.gained
                  /\ e.ret.gained > 0 =>
                        (new.LastCheckin = Today(e.at) /\ old.LastCheckin # Today(e.at))
                  /\ (c.op = "CheckIn" /\ e.ret.gained = 0) => e.after = e.before

\* The write transaction of a CheckIn that was due failed, and a later
\* CheckIn gained the reward.
C33_Witness ==
    /\ Len(log) = 2
    /\ log[1].call.op = "CheckIn" /\ log[1].ret.err
    /\ log[1].call.id \in DOMAIN log[1].before
    /\ log[2].call.op = "CheckIn" /\ log[2].ret.gained = checkInReward

\* ------------------------------------------------------------------ C34

\* The variables of the chat manager but the history bucket and its ghost.
managerVars == <<hasClient, model, cmodel, mgrMu, histories, saves, nsaves,
                 cpc, cuser, cturn, chist, creq, cret, ccomp, nturns, cctx>>

\* What GetChatHistory returns as data: a copy of the stored value, or nil,
\* the empty slice, when the key is not there.
HistoryDataNoCopy(b, u) ==
    IF u \in DOMAIN b THEN [i \in 1..Len(b[u]) |-> 0] ELSE << >>
HistoryData(b, u) ==
    IF u \in DOMAIN b THEN [i \in 1..Len(b[u]) |-> b[u][i]] ELSE << >>

StoreFailure == "store failure"

\* Store.SaveChatHistory(userID, data) when the transaction succeeds.
StoreSaveChatHistory(u, data) ==
    /\ CanLock(storeMu)
    /\ historyBucket' = Put(historyBucket, u, data)
    /\ saved' = Put(saved, u, data)
    /\ lcall' = ListCall("SaveChatHistory", u, 0, 0, ListRet("", data),
                         Buckets(users, media, settings, historyBucket'))
    /\ UNCHANGED <<storeVars, wallClock, rateVars, managerVars, media, pager>>

\* Store.SaveChatHistory(userID, data) when the transaction fails.
StoreSaveChatHistoryFails(u, data) ==
    /\ CanLock(storeMu)
    /\ lcall' = ListCall("SaveChatHistory", u, 0, 0, ListRet(StoreFailure, data),
                         Buckets(users, media, settings, historyBucket))
    /\ UNCHANGED <<storeVars, wallClock, rateVars, chatVars, media, pager>>

\* Store.GetChatHistory(userID)
GetChatHistory(u) ==
    /\ CanLock(storeMu)
    /\ lcall' = ListCall("GetChatHistory", u, 0, 0,
                         ListRet("", HistoryData(historyBucket, u)),
                         Buckets(users, media, settings, historyBucket))
    /\ UNCHANGED <<storeVars, wallClock, rateVars, chatVars, media, pager>>

\* The blobs callers hand to the store: byte strings, the empty one too.
Blobs == {<< >>, <<1>>, <<1, 2>>}

InitHistory ==
    /\ InitStoreWith("u1" :> StoredUser("u1", 3, NoDay))
    /\ InitManagerWith(<< >>)
    /\ \E hb \in {<< >>, "u1" :> <<2, 1>>} : InitChatWith(TRUE, hb)

NextHistory ==
    \E u \in UserIDs :
        \/ \E data \in Blobs :
             \/ StoreSaveChatHistory(u, data)
             \/ StoreSaveChatHistoryFails(u, data)
        \/ GetChatHistory(u)

\* Saves and reads of the histories of two users, with saves that may fail.
SpecHistory == InitHistory /\ [][NextHistory]_vars

\* C34: GetChatHistory(u) returns, without error, the bytes of the last
\* SaveChatHistory(u, data) that succeeded, and nothing if there was none;
\* SaveChatHistory for one user leaves what GetChatHistory returns for any
\* other user as it was.
C34_HistoryVerbatim ==
    /\ lcall.op = "GetChatHistory" =>
          /\ ~lcall.ret.panicked
          /\ lcall.ret.err = ""
          /\ lcall.ret.items = IF lcall.id \in DOMAIN saved THEN saved[lcall.id] ELSE << >>
          /\ lcall.after = lcall.before
    /\ lcall.op = "SaveChatHistory" =>
          /\ \A v \in UserIDs \ {lcall.id} :
                /\ v \in DOMAIN lcall.after.history <=> v \in DOMAIN lcall.before.history
                /\ v \in DOMAIN lcall.before.history =>
                      lcall.after.history[v] = lcall.before.history[v]
          /\ lcall.ret.err # "" => lcall.after = lcall.before

\* u1's history was read back after a save for u1 and a later one for u2.
C34_Witness ==
    /\ lcall.op = "GetChatHistory"
    /\ lcall.id = "u1"
    /\ lcall.ret.items = <<1, 2>>
    /\ "u2" \in DOMAIN saved /\ saved["u2"] = <<1>>

\* ------------------------------------------------------------------ C35

\* The model NewManager is given by the configuration.
configModel == "gpt"

\* NewManager's rateLimit: the stored limit if there is a store that holds
\* one, else the default.
NewManagerLimitIgnoringStore(st, b) == defaultRateLimitPerMin
NewManagerLimit(st, b) == IF st THEN NewManagerRateLimit(b) ELSE defaultRateLimitPerMin

\* The process starts again: NewManager over the same store (st) or with no
\* store.
NewManager(st) ==
    /\ mgrMu = NoProc
    /\ \A p \in ChatProcs : cpc[p] = "idle"
    /\ rateLimit' = NewManagerLimit(st, settings)
    /\ mgr' = [mgr EXCEPT !.store = st, !.new = TRUE, !.last = NotSet]
    /\ rates' = << >>
    /\ wins' = [u \in UserIDs |-> NoWin]
    /\ lastReq' = NoReq
    /\ histories' = << >>
    /\ model' = configModel
    /\ UNCHANGED <<settings, monoClock, nreqs>>
    /\ UNCHANGED <<hasClient, cmodel, mgrMu, historyBucket, saved, saves, nsaves, cpc, cuser,
                   cturn, chist, creq, cret, ccomp, nturns, cctx>>
    /\ UNCHANGED <<storeVars, listVars, wallClock>>

\* Manager.SetRateLimit(limit) when the store's transaction fails: the limit
\* in memory is changed, the call returns the error.
SetRateLimitFails(limit) ==
    /\ mgrMu = NoProc
    /\ storeMu = NoProc
    /\ mgr.store
    /\ rateLimit' = limit
    /\ mgr' = [mgr EXCEPT !.new = FALSE, !.last = NotSet]
    /\ wins' = [u \in UserIDs |->
                  IF limit # rateLimit
                  THEN [wins[u] EXCEPT !.const = FALSE, !.admits = << >>]
                  ELSE wins[u]]
    /\ UNCHANGED <<settings, rates, monoClock, lastReq, nreqs>>
    /\ UNCHANGED <<storeVars, listVars, wallClock, chatVars>>

\* The limits set: negative, zero, one digit, two digits.
RestartLimits == ((-1)..MaxLimit) \cup {12}

\* A Manager over a new store.
InitRestart ==
    /\ InitStoreWith("u1" :> StoredUser("u1", 3, NoDay))
    /\ InitManagerWith(<< >>)
    /\ InitChatWith(TRUE, << >>)

NextRestart ==
    \/ \E l \in RestartLimits :
         \/ SetRateLimit(l)
         \/ SetRateLimitFails(l)
    \/ \E st \in BOOLEAN : NewManager(st)
    \/ \E u \in UserIDs : ConsumeRateCall(u)

\* Limit changes, requests and restarts of the process, with or without the
\* store.
SpecRestart == InitRestart /\ [][NextRestart]_vars

\* C35: after a SetRateLimit(L) that succeeded RateLimit() returns L; a
\* Manager newly created over a store in which L was the last limit written
\* starts with L, also for L <= 0, and one created over a store without a
\* limit, or with no store, starts with 20.
C35_LimitPersisted ==
    /\ mgr.last.set => rateLimit = mgr.last.v
    /\ mgr.new =>
          rateLimit = IF mgr.store /\ mgr.stored.set THEN mgr.stored.v ELSE 20

\* The process was started again over the store in which -1 was the last
\* limit written, after a SetRateLimit that failed.
C35_Witness ==
    /\ mgr.new
    /\ mgr.store
    /\ mgr.stored = SetTo(-1)
    /\ rateLimit = -1
    /\ nreqs > 0

\* ------------------------------------------------------------------ C36

\* Store.CountMedia: bucket.Stats().KeyN
CountMedia(b) == Cardinality(DOMAIN b)

\* C36 as stated: every SaveMedia that succeeds creates a record under an ID
\* no stored record has, so CountMedia goes up by exactly 1 and the external
\* object key and the tags of every record stored before stay as they were,
\* also when the same file handle is saved twice.
C36_MediaIdentityUnique ==
    (lcall.op = "SaveMedia" /\ lcall.ret.err = "") =>
        /\ lcall.id \notin DOMAIN lcall.before.images
        /\ CountMedia(lcall.after.images) = CountMedia(lcall.before.images) + 1
        /\ \A k \in DOMAIN lcall.before.images :
              /\ k \in DOMAIN lcall.after.images
              /\ UnmarshalMedia(lcall.after.images[k]).R2Key
                    = UnmarshalMedia(lcall.before.images[k]).R2Key
              /\ UnmarshalMedia(lcall.after.images[k]).Tags
                    = UnmarshalMedia(lcall.before.images[k]).Tags

\* ------------------------------------------------------------------ C37

RECURSIVE SortKeys(_)
\* bucket.ForEach visits the keys in byte order.
SortKeys(K) ==
    IF K = {} THEN << >>
    ELSE LET m == CHOOSE x \in K : \A y \in K \ {x} : StringLess(x, y)
         IN <<m>> \o SortKeys(K \ {m})

\* json.Marshal(newUser) of the record decoded as OldUser: the same
\* attributes, the ID as the decimal string.
MigratedDataNoCheckin(v) == [v EXCEPT !.id = [t |-> "string", v |-> Itoa(v.id.v)],
                                      !.last_checkin = NoDay]
MigratedData(v) == [v EXCEPT !.id = [t |-> "string", v |-> Itoa(v.id.v)]]

\* The record under key k is left alone: it decodes as NewUser with the ID
\* k, or it does not decode as OldUser either.
MigrationSkips(k, v) ==
    \/ v.id.t = "string" /\ v.id.v # "" /\ k = v.id.v
    \/ v.id.t # "number"

RECURSIVE Migrations(_, _)
\* The migrations the ForEach pass collects over the keys ks of bucket b.
Migrations(b, ks) ==
    IF ks = << >> THEN << >>
    ELSE LET k == Head(ks) IN
         (IF MigrationSkips(k, b[k]) THEN << >>
          ELSE <<[oldKey |-> k, newKey |-> Itoa(b[k].id.v), data |-> MigratedData(b[k])]>>)
            \o Migrations(b, Tail(ks))

RECURSIVE ApplyMigrations(_, _)
\* The second loop: delete the old key if it differs, put the new record.
ApplyMigrations(b, ms) ==
    IF ms = << >> THEN b
    ELSE LET m == Head(ms)
             b1 == IF m.oldKey # m.newKey THEN Delete(b, m.oldKey) ELSE b
         IN ApplyMigrations(Put(b1, m.newKey, m.data), Tail(ms))

MigrateCall == StoreCall("migrate-users", "", 0, "", "")

\* cmd/migrate-users runs on the database file: one transaction, while no
\* other process has the file open.
Migrate ==
    LET after == ApplyMigrations(users, Migrations(users, SortKeys(DOMAIN users))) IN
    /\ storeMu = NoProc
    /\ \A p \in AllProcs : spc[p] = "idle"
    /\ ncalls < MaxStoreCalls
    /\ ncalls' = ncalls + 1
    /\ users' = after
    /\ log' = Append(log, [proc |-> NoProc, call |-> MigrateCall, at |-> wallClock,
                           before |-> users, after |-> after, ret |-> NoRet,
                           conc |-> FALSE])
    /\ UNCHANGED <<users0, storeMu, spc, scall, suser, sconc, wallClock>>
    /\ UNCHANGED nonStoreVars

\* The users bucket the earlier store left, with u1 or without: records with
\* numeric IDs under the decimal strings of the IDs.
InitUsersMigrate ==
    {("1" :> LegacyUser(1, 0, NoDay)) @@ ("2" :> LegacyUser(2, 5, Yesterday)),
     ("2" :> LegacyUser(2, 5, Yesterday)) @@ ("u1" :> StoredUser("u1", 3, NoDay)),
     "u1" :> StoredUser("u1", 3, NoDay)}

\* Calls of the bot between runs of the tool.
MigrateUserCalls ==
    { StoreCall("GetOrCreateUser", "1", 0, "bo", ""),
      StoreCall("AddPoints", "2", 1, "", ""),
      StoreCall("CheckIn", "2", checkInReward, "", ""),
      StoreCall("SetPersona", "1", 0, "pirate", "") }

MigrateUserCall(p) ==
    /\ ncalls < MaxStoreCalls
    /\ \E c \in MigrateUserCalls : Call(p, c)

InitMigrate ==
    /\ \E b \in InitUsersMigrate : InitStoreWith(b)
    /\ InitManagerWith(<< >>)
    /\ InitChatWith(TRUE, << >>)

NextMigrate ==
    \/ \E p \in FailProcs :
         \/ MigrateUserCall(p)
         \/ Lock(p)
         \/ TxGet(p)
         \/ TxPut(p)
         \/ Unlock(p)
    \/ Migrate

\* Runs of the migration tool and calls of the bot, one after the other,
\* over a store the earlier version wrote.
SpecMigrate == InitMigrate /\ [][NextMigrate]_vars

\* C37: a record whose ID is a JSON number decodes to the ID of its decimal
\* string with the other attributes as stored; a run of the migration leaves
\* every record in the string-ID form under the same key with the same
\* attributes, loses none, and a run over migrated records changes nothing.
C37_LegacyCanonical ==
    /\ \A k \in DOMAIN users :
          users[k].id.t = "number" =>
              Unmarshal(users[k]) =
                  [ID |-> k, Username |-> users[k].username,
                   Points |-> users[k].points,
                   LastCheckin |-> users[k].last_checkin,
                   IsAdmin |-> users[k].is_admin,
                   DisplayName |-> users[k].display_name,
                   Persona |-> users[k].persona]
    /\ \A i \in 1..Len(log) :
          LET e == log[i] IN
          e.call = MigrateCall =>
             /\ DOMAIN e.after = DOMAIN e.before
             /\ \A k \in DOMAIN e.before :
                   /\ e.after[k].id = [t |-> "string", v |-> k]
                   /\ Unmarshal(e.after[k]) = Unmarshal(e.before[k])
             /\ (\A k \in DOMAIN e.before : e.before[k].id.t = "string") =>
                   e.after = e.before

\* The tool ran twice over a store that held two records of the earlier
\* format; the first run rewrote them.
C37_Witness ==
    /\ Len(log) = 2
    /\ log[1].call = MigrateCall /\ log[2].call = MigrateCall
    /\ \A k \in DOMAIN users0 : users0[k].id.t = "number"
    /\ Cardinality(DOMAIN users0) = 2
    /\ log[1].after # log[1].before
    /\ log[2].after = log[2].before

\* ------------------------------------------------------------------ C38

\* A store holding no history or a history of u1 as the Manager saves it:
\* turns only, or a summary and turns, over the threshold or at the ceiling.
InitShape ==
    /\ InitStoreWith("u1" :> StoredUser("u1", 3, NoDay))
    /\ InitManagerWith(StoreSetRateLimit(<< >>, 0))
    /\ \E hb \in {<< >>,
                  "u1" :> MarshalHistory(PairHistory(summaryThreshold + 1)),
                  "u1" :> MarshalHistory(PairHistory(maxHistory)),
                  "u1" :> MarshalHistory(SummarizedHistory(summaryThreshold + 2)),
                  "u1" :> MarshalHistory(SummarizedHistory(maxHistory))} :
          InitChatWith(TRUE, hb)

\* Chat turns over such a store.
SpecShape == InitShape /\ [][NextChat]_vars

\* The message is the summary turn of a compaction.
IsSummaryTurn(m) ==
    /\ m.Role = "system"
    /\ Len(m.Content) >= 1
    /\ m.Content[1] = SummaryPrefix

\* C38: a cached history holds user and assistant turns and at most one
\* system turn, which is a summary turn and the first message; neither the
\* persona nor the baseline instructions are in it.
C38_CachedShape ==
    \A u \in DOMAIN histories :
        LET h == histories[u] IN
        \A i \in 1..Len(h) :
            /\ h[i].Role \in {"user", "assistant"} \/ (i = 1 /\ IsSummaryTurn(h[i]))
            /\ \A user \in ChatUsers :
                  \A j \in 1..Len(SystemMessages(user)) : h[i] # SystemMessages(user)[j]

\* u1's cached history is a summary turn, the recent turns a compaction
\* kept, and the pair of the turn; u2, who has a persona, had a turn too.
C38_Witness ==
    /\ "u1" \in DOMAIN histories
    /\ Len(histories["u1"]) = 1 + keepRecent + 2
    /\ IsSummaryTurn(histories["u1"][1])
    /\ "u2" \in DOMAIN histories
    /\ Len(histories["u2"]) = 2

\* ------------------------------------------------------------------ C39

\* The goroutine whose turns follow one another, and its user.
SoloProc == 1
SoloUser == [ID |-> "u1", Persona |-> ""]

\* The histories of u1 a Manager can have saved: whole turns, cut to the
\* ceiling, with or without a summary turn before them.
SavedHistories ==
    {PairHistory(2 * n) : n \in 0..(maxHistory \div 2)}
        \cup {SummarizedHistory(2 * n) : n \in ((1 + keepRecent) \div 2)..(maxHistory \div 2)}

InitSolo ==
    /\ InitStoreWith("u1" :> StoredUser("u1", 3, NoDay))
    /\ InitManagerWith(StoreSetRateLimit(<< >>, 0))
    /\ \E h \in SavedHistories :
          InitChatWith(TRUE, IF h = << >> THEN << >> ELSE "u1" :> MarshalHistory(h))

\* Turns of one user, one after the other; a summarization that is asked
\* for answers with a summary.
NextSolo ==
    \/ ChatBegin(SoloProc, SoloUser)
    \/ SummaryReturn(SoloProc, ApiOk(<<"sum">>))
    \/ \E resp \in {ApiOk(Answer(cturn[SoloProc])), ApiEmpty, ApiError("completion failed")} :
         CompletionReturn(SoloProc, resp)
    \/ ChatAppend(SoloProc)
    \/ \E job \in saves : SaveChatHistory(job)

SpecSolo == InitSolo /\ [][NextSolo]_vars

\* C39: once a turn is past its start the history it works on is within the
\* threshold, and is a summary turn and keepRecent messages if it was over
\* it; the append of a turn leaves at most summaryThreshold + 1 messages and
\* cuts nothing off, so a summary turn stays.
C39_CeilingNeverFires ==
    LET c == ccomp[SoloProc]
        started == cpc[SoloProc] \in {"completing", "append"}
        appended == c.full # << >>
    IN
    /\ started => /\ Len(chist[SoloProc]) <= summaryThreshold
                  /\ c.state \in {"none", "done"}
    /\ (started /\ c.state = "done") =>
          /\ Len(c.pre) > summaryThreshold
          /\ Len(chist[SoloProc]) = 1 + keepRecent
          /\ histories["u1"] = chist[SoloProc]
    /\ appended =>
          /\ Len(c.full) <= summaryThreshold + 1
          /\ c.kept = c.full
          /\ histories["u1"] = c.full
          /\ (chist[SoloProc] # << >> /\ IsSummaryTurn(chist[SoloProc][1]))
                => IsSummaryTurn(histories["u1"][1])

\* A turn compacted a history over the threshold and appended its pair; the
\* summary turn is still the first message.
C39_Witness ==
    /\ ccomp[SoloProc].state = "done"
    /\ Len(ccomp[SoloProc].pre) = summaryThreshold + 1
    /\ Len(ccomp[SoloProc].full) = 1 + keepRecent + 2
    /\ IsSummaryTurn(histories["u1"][1])
    /\ nturns = MaxTurns

\* ------------------------------------------------------------------ C40

\* The model names administrators set.
ModelNames == {"gpt", "gpt-4", "gpt-5"}

\* Manager.SetModel calls of two goroutines on a Manager over a store in
\* which no model or the model "gpt-4" was set before.
InitSetModel ==
    /\ InitStoreWith("u1" :> StoredUser("u1", 3, NoDay))
    /\ \E b \in {<< >>, StoreSetModel(<< >>, "gpt-4")} :
          InitManagerWith(StoreSetRateLimit(b, 0))
    /\ InitChatWith(TRUE, << >>)

NextSetModel ==
    \E p \in ChatProcs :
        \/ \E mdl \in ModelNames : SetModelBegin(p, mdl)
        \/ SetModelPersist(p)
        \/ SetModelFails(p)

SpecSetModel == InitSetModel /\ [][NextSetModel]_vars

\* C40 as stated: when no SetModel call is in progress, at least one was
\* made and none of the last calls failed, Model() returns what
\* Store.GetModel() returns, and a chat turn begun then sends that model.
C40_ModelConsistent ==
    (/\ \A p \in ChatProcs : cmodel[p].state \in {"none", "done"}
     /\ \E p \in ChatProcs : cmodel[p].state = "done")
        => /\ model = StoreGetModel(settings)
           /\ ChatRequest(SoloUser, << >>, Prompt(1), model, settings).model = model

====
